---------------------------- MODULE Spec2Model ----------------------------
(***************************************************************************)
(* Refund orchestrator (Privnode-HQ/zelo-refund): the refund quote         *)
(* algorithm (utils/refundAlgo.ts, routes/users.ts buildRefundQuote), the  *)
(* user-level refund execution engine (routes/users.ts POST /:userId/      *)
(* refund), the legacy single-top-up refund (routes/refundCreate.ts) and   *)
(* the fleet estimate job (routes/refundEstimate.ts). The engine is        *)
(* modelled for one user; amounts are integers: cents and quota units.     *)
(***************************************************************************)
EXTENDS Integers, Sequences, FiniteSets, TLC

(***************************************************************************)
(* Bounds of the model.                                                    *)
(***************************************************************************)
\* orders handed to computeRefundDueV2 in SpecAlgo
MaxOrders == 3
\* largest paid_cents of an order in SpecAlgo
MaxPaidCents == 2
\* grant_quota and used_quota in SpecAlgo are multiples of HalfCentQuota
MaxGrantUnits == 4
MaxUsedUnits == 4
\* created_at of an order in SpecAlgo ranges over 1..MaxCreated
MaxCreated == 2

(***************************************************************************)
(* utils/quota.ts                                                          *)
(***************************************************************************)
QUOTA_PER_CENT == 5000

\* granularity of the quota amounts drawn by the initial states (half a cent)
HalfCentQuota == QUOTA_PER_CENT \div 2

\* bigint division truncates toward zero
BigIntDiv(a, b) == IF a >= 0 THEN a \div b ELSE -((-a) \div b)

centsToQuota(cents) == cents * QUOTA_PER_CENT

quotaToCentsFloor(q) == BigIntDiv(q, QUOTA_PER_CENT)

Min(a, b) == IF a < b THEN a ELSE b

Max(a, b) == IF a > b THEN a ELSE b

RECURSIVE SeqSum(_)
SeqSum(s) == IF s = <<>> THEN 0 ELSE Head(s) + SeqSum(Tail(s))

(***************************************************************************)
(* utils/refundAlgo.ts                                                     *)
(***************************************************************************)
\* order ids are strings compared with <; the ids of the model, in that order
OrderIdsInOrder == << "gift_pool", "o1", "o2", "o3", "o4", "stripe:c1",
                      "stripe:c2", "stripe:c3", "yipay:t1", "yipay:t2" >>

IdRank(id) == CHOOSE i \in 1..Len(OrderIdsInOrder) : OrderIdsInOrder[i] = id

clampNonNegative(value) == IF value < 0 THEN 0 ELSE value

\* mutant of comparePromoRatioDesc: the numerators are compared as they are
comparePromoRatioDesc_NumeratorOnly(a, b) ==
  IF a.promo_ratio_num = b.promo_ratio_num THEN 0
  ELSE IF a.promo_ratio_num > b.promo_ratio_num THEN -1 ELSE 1

\* -1, 0 or 1 as the comparator returns
comparePromoRatioDesc(a, b) ==
  LET gA == a.grant_quota
      gB == b.grant_quota
  IN  IF gA = 0 /\ gB = 0 THEN 0
      ELSE IF gA = 0
        THEN (IF b.promo_ratio_num = 0 THEN 0
              ELSE IF b.promo_ratio_num > 0 THEN 1 ELSE -1)
      ELSE IF gB = 0
        THEN (IF a.promo_ratio_num = 0 THEN 0
              ELSE IF a.promo_ratio_num > 0 THEN -1 ELSE 1)
      ELSE LET left == a.promo_ratio_num * gB
               right == b.promo_ratio_num * gA
           IN  IF left = right THEN 0
               ELSE IF left > right THEN -1 ELSE 1

\* mutant of compareOrders: the least promotional order comes first
compareOrders_RatioAsc(a, b) ==
  LET ratioCmp == comparePromoRatioDesc(b, a)
  IN  IF ratioCmp # 0 THEN ratioCmp
      ELSE IF a.grant_quota # b.grant_quota
        THEN (IF a.grant_quota > b.grant_quota THEN -1 ELSE 1)
      ELSE IF a.created_at # b.created_at
        THEN (IF a.created_at < b.created_at THEN -1 ELSE 1)
      ELSE IF a.id = b.id THEN 0
      ELSE IF IdRank(a.id) < IdRank(b.id) THEN -1 ELSE 1

\* mutant of compareOrders: the tie-break on the id is lost
compareOrders_NoIdTieBreak(a, b) ==
  LET ratioCmp == comparePromoRatioDesc(a, b)
  IN  IF ratioCmp # 0 THEN ratioCmp
      ELSE IF a.grant_quota # b.grant_quota
        THEN (IF a.grant_quota > b.grant_quota THEN -1 ELSE 1)
      ELSE IF a.created_at # b.created_at
        THEN (IF a.created_at < b.created_at THEN -1 ELSE 1)
      ELSE 0

\* the comparator passed to sort() in computeRefundDueV2
compareOrders(a, b) ==
  LET ratioCmp == comparePromoRatioDesc(a, b)
  IN  IF ratioCmp # 0 THEN ratioCmp
      ELSE IF a.grant_quota # b.grant_quota
        THEN (IF a.grant_quota > b.grant_quota THEN -1 ELSE 1)
      ELSE IF a.created_at # b.created_at
        THEN (IF a.created_at < b.created_at THEN -1 ELSE 1)
      ELSE IF a.id = b.id THEN 0
      ELSE IF IdRank(a.id) < IdRank(b.id) THEN -1 ELSE 1

\* Array.prototype.sort is stable: o goes after every element that does not
\* compare greater than it
RECURSIVE InsertOrder(_, _)
InsertOrder(sorted, o) ==
  IF sorted = <<>> THEN << o >>
  ELSE IF compareOrders(Head(sorted), o) <= 0
    THEN << Head(sorted) >> \o InsertOrder(Tail(sorted), o)
  ELSE << o >> \o sorted

RECURSIVE SortOrders(_)
SortOrders(s) ==
  IF s = <<>> THEN <<>>
  ELSE InsertOrder(SortOrders(SubSeq(s, 1, Len(s) - 1)), s[Len(s)])

\* mutant of normalizeOrder: the paid quota is capped by the grant
normalizeOrder_PaidCappedByGrant(o) ==
  LET paidCents == clampNonNegative(o.paid_cents)
      grantQuota == clampNonNegative(o.grant_quota)
      paidQuota == Min(centsToQuota(paidCents), grantQuota)
  IN  [ id |-> o.id,
        created_at |-> o.created_at,
        paid_cents |-> paidCents,
        grant_quota |-> grantQuota,
        paid_quota |-> paidQuota,
        promo_ratio_num |-> IF grantQuota > 0 THEN grantQuota - paidQuota ELSE 0,
        promo_ratio_den |-> grantQuota,
        used_alloc_quota |-> 0,
        refundable_quota |-> 0 ]

normalizeOrder(o) ==
  LET paidCents == clampNonNegative(o.paid_cents)
      grantQuota == clampNonNegative(o.grant_quota)
      paidQuota == centsToQuota(paidCents)
  IN  [ id |-> o.id,
        created_at |-> o.created_at,
        paid_cents |-> paidCents,
        grant_quota |-> grantQuota,
        paid_quota |-> paidQuota,
        promo_ratio_num |-> IF grantQuota > 0 THEN grantQuota - paidQuota ELSE 0,
        promo_ratio_den |-> grantQuota,
        used_alloc_quota |-> 0,
        refundable_quota |-> 0 ]

\* mutant of allocUsed: the cap by the order's grant is lost
allocUsed_NoGrantCap(remaining, grantQuota) ==
  IF remaining <= 0 THEN 0 ELSE remaining

\* u of one order of the allocation loop, given what is left of U
allocUsed(remaining, grantQuota) ==
  IF remaining <= 0 THEN 0
  ELSE IF remaining >= grantQuota THEN grantQuota ELSE remaining

\* the allocation loop: sorted orders with used_alloc_quota and refundable_quota
RECURSIVE allocateLoop(_, _, _)
allocateLoop(sorted, U, allocatedSum) ==
  IF sorted = <<>> THEN <<>>
  ELSE LET o == Head(sorted)
           u == allocUsed(U - allocatedSum, o.grant_quota)
           refundable == IF o.paid_quota > u THEN o.paid_quota - u ELSE 0
       IN  << [o EXCEPT !.used_alloc_quota = u, !.refundable_quota = refundable] >>
             \o allocateLoop(Tail(sorted), U, allocatedSum + u)

computeRefundDueV2(orders, usedTotalQuota) ==
  LET normalized == [i \in 1..Len(orders) |-> normalizeOrder(orders[i])]
      sorted == SortOrders(normalized)
      U == clampNonNegative(usedTotalQuota)
      done == allocateLoop(sorted, U, 0)
      totalRefundableQuota == SeqSum([i \in 1..Len(done) |-> done[i].refundable_quota])
  IN  [ due_cents |-> quotaToCentsFloor(totalRefundableQuota),
        due_quota |-> totalRefundableQuota,
        used_total_quota |-> U,
        orders_sorted |-> done ]

(***************************************************************************)
(* utils/refundAlgo.ts withSyntheticGiftPoolOrder                          *)
(***************************************************************************)
SumMap(s, F(_)) == SeqSum([i \in 1..Len(s) |-> F(s[i])])

\* mutant of withSyntheticGiftPoolOrder: no synthetic order is added
withSyntheticGiftPoolOrder_NoGift(orders, totalUserQuota) ==
  [ orders |-> orders, gift_pool_quota |-> 0,
    total_grant_quota |-> SumMap(orders, LAMBDA o : clampNonNegative(o.grant_quota)),
    total_user_quota |-> totalUserQuota ]

\* If the orders grant less than quota + used_quota, one synthetic order with
\* paid_cents = 0, created_at = 0 and the missing grant is added.
withSyntheticGiftPoolOrder(orders, totalUserQuota) ==
  LET totalGrant == SumMap(orders, LAMBDA o : clampNonNegative(o.grant_quota))
      gift == IF totalGrant < totalUserQuota THEN totalUserQuota - totalGrant ELSE 0
  IN  [ orders |-> IF gift > 0
                     THEN Append(orders, [ id |-> "gift_pool", paid_cents |-> 0,
                                           grant_quota |-> gift, created_at |-> 0 ])
                     ELSE orders,
        gift_pool_quota |-> gift,
        total_grant_quota |-> totalGrant,
        total_user_quota |-> totalUserQuota ]

(***************************************************************************)
(* routes/users.ts: buildRefundQuote                                       *)
(***************************************************************************)
IsYipayMethod(m) == m \in {"alipay", "wxpay"}

\* .in('status', ['pending', 'succeeded']) of listRefundsForUserAccounting
listRefundsForUserAccounting(rows) ==
  SelectSeq(rows, LAMBDA r : r.status \in {"pending", "succeeded"})

\* top_ups rows of the aggregator (status in success, refund), table order
listUserYipayTopupsForAlgo(topups) ==
  SelectSeq(topups, LAMBDA t : IsYipayMethod(t.payment_method)
                               /\ t.status \in {"success", "refund"})

listUserStripeTopupsForAlgo(topups) ==
  SelectSeq(topups, LAMBDA t : t.payment_method = "stripe"
                               /\ t.status \in {"success", "refund"})

sumYipayPaidCents(topups) ==
  SumMap(listUserYipayTopupsForAlgo(topups), LAMBDA t : t.money_cents)

\* sum of quota_delta > 0 over the rows of a provider for one target
RefundedQuotaBy(rows, provider, tradeNo, chargeId) ==
  SumMap(rows, LAMBDA r :
    IF /\ r.provider = provider
       /\ (provider = "yipay" => r.topup_trade_no = tradeNo)
       /\ (provider = "stripe" => r.stripe_charge_id = chargeId)
       /\ r.quota_delta > 0
    THEN r.quota_delta ELSE 0)

\* sum of refund_money_minor over the aggregator rows of one top-up
RefundedCentsByTopup(rows, tradeNo) ==
  SumMap(rows, LAMBDA r :
    IF r.provider = "yipay" /\ r.topup_trade_no = tradeNo
    THEN r.refund_money_minor ELSE 0)

\* stripeGrantByTradeNo.get(key): << grant >> or << >> when there is no entry
stripeGrantByTradeNo(topups, key) ==
  LET hits == SelectSeq(listUserStripeTopupsForAlgo(topups),
                        LAMBDA t : t.trade_no = key /\ t.amount_cents > 0)
  IN  IF key = "" \/ hits = << >> THEN << >>
      ELSE << centsToQuota(hits[Len(hits)].amount_cents) >>

\* the charges the loop keeps, with remaining_cents
stripeChargeRow(charge) ==
  [ id |-> charge.id,
    order_id |-> charge.order_id,
    created |-> charge.created,
    payment_intent |-> charge.payment_intent,
    currency |-> charge.currency,
    amount_cents |-> charge.amount,
    refunded_cents |-> charge.amount_refunded,
    remaining_cents |-> IF charge.amount > charge.amount_refunded
                          THEN charge.amount - charge.amount_refunded ELSE 0 ]

stripeChargesForAlgo(stripeCustomer, chargeList) ==
  IF stripeCustomer = "" THEN << >>
  ELSE LET kept == SelectSeq(chargeList,
                             LAMBDA c : c.paid /\ c.status = "succeeded")
       IN  [i \in 1..Len(kept) |-> stripeChargeRow(kept[i])]

\* stable sort by created, newest first
RECURSIVE InsertByCreatedDesc(_, _)
InsertByCreatedDesc(sorted, c) ==
  IF sorted = << >> THEN << c >>
  ELSE IF Head(sorted).created >= c.created
    THEN << Head(sorted) >> \o InsertByCreatedDesc(Tail(sorted), c)
  ELSE << c >> \o sorted

\* mutant of SortByCreatedDesc: the charges stay in listing order
SortByCreatedDesc_ListingOrder(s) == s

RECURSIVE SortByCreatedDesc(_)
SortByCreatedDesc(s) ==
  IF s = << >> THEN << >>
  ELSE InsertByCreatedDesc(SortByCreatedDesc(SubSeq(s, 1, Len(s) - 1)), s[Len(s)])

\* the charge loop throws when two kept charges differ in currency
stripeMultipleCurrencies(stripeCustomer, chargeList) ==
  LET rows == stripeChargesForAlgo(stripeCustomer, chargeList)
  IN  \E i, j \in 1..Len(rows) : rows[i].currency # rows[j].currency

yipayAlgoOrder(t, refundsForAccounting) ==
  LET paidCentsRaw == t.money_cents
      already == SumMap(refundsForAccounting, LAMBDA r :
                   IF /\ r.provider = "yipay"
                      /\ r.topup_trade_no = t.trade_no
                      /\ r.refund_money_minor > 0
                   THEN r.refund_money_minor ELSE 0)
      amountQuota == IF t.amount_cents > 0 THEN centsToQuota(t.amount_cents)
                     ELSE centsToQuota(paidCentsRaw)
      alreadyQuota == RefundedQuotaBy(refundsForAccounting, "yipay", t.trade_no, "")
  IN  [ id |-> t.order_id,
        paid_cents |-> IF paidCentsRaw > already THEN paidCentsRaw - already ELSE 0,
        grant_quota |-> IF amountQuota > alreadyQuota
                          THEN amountQuota - alreadyQuota ELSE 0,
        created_at |-> t.create_time ]

stripeAlgoOrder(c, topups, refundsForAccounting) ==
  LET byCharge == stripeGrantByTradeNo(topups, c.id)
      byIntent == stripeGrantByTradeNo(topups, c.payment_intent)
      originalGrantQuota == IF byCharge # << >> THEN byCharge[1]
                            ELSE IF byIntent # << >> THEN byIntent[1]
                            ELSE centsToQuota(c.amount_cents)
      alreadyQuota == RefundedQuotaBy(refundsForAccounting, "stripe", "", c.id)
  IN  [ id |-> c.order_id,
        paid_cents |-> c.remaining_cents,
        grant_quota |-> IF originalGrantQuota > alreadyQuota
                          THEN originalGrantQuota - alreadyQuota ELSE 0,
        created_at |-> c.created ]

\* mutant of clampDue: the clamp to the net paid amount is lost
clampDue_NoClamp(dueCentsUnclamped, totalNetPaidCents) == dueCentsUnclamped

clampDue(dueCentsUnclamped, totalNetPaidCents) ==
  IF dueCentsUnclamped > totalNetPaidCents THEN totalNetPaidCents
  ELSE dueCentsUnclamped

\* mutant of stripePlanCents: the whole amount due is planned on the card
stripePlanCents_AllDue(dueCents, stripeNetPaidCents) == dueCents

\* the card part of the plan
stripePlanCents(dueCents, stripeNetPaidCents) ==
  IF dueCents > stripeNetPaidCents THEN stripeNetPaidCents ELSE dueCents

\* user: the users row read; refundsForAccounting: the rows read from the audit
\* store; chargeList: what listCustomerCharges returned; topups: the top_ups rows
buildRefundQuote(user, refundsForAccounting, chargeList, topups) ==
  LET quotaNow == user.quota
      usedQuota == user.used_quota
      yipayPaidCents == sumYipayPaidCents(topups)
      yipayRefundedCents ==
        SumMap(refundsForAccounting, LAMBDA r :
          IF r.provider = "yipay" THEN r.refund_money_minor ELSE 0)
      yipayNetPaidCents == IF yipayPaidCents > yipayRefundedCents
                             THEN yipayPaidCents - yipayRefundedCents ELSE 0
      chargeRows == stripeChargesForAlgo(user.stripe_customer, chargeList)
      refundable == SelectSeq(chargeRows, LAMBDA c : c.remaining_cents > 0)
      stripeNetPaidCents == SumMap(refundable, LAMBDA c : c.remaining_cents)
      totalNetPaidCents == stripeNetPaidCents + yipayNetPaidCents
      yipayTopups == listUserYipayTopupsForAlgo(topups)
      allOrders ==
        [i \in 1..Len(yipayTopups) |->
           yipayAlgoOrder(yipayTopups[i], refundsForAccounting)]
        \o [i \in 1..Len(chargeRows) |->
              stripeAlgoOrder(chargeRows[i], topups, refundsForAccounting)]
      algoOrdersIn == SelectSeq(allOrders,
                                LAMBDA o : o.paid_cents > 0 \/ o.grant_quota > 0)
      pool == withSyntheticGiftPoolOrder(algoOrdersIn, quotaNow + usedQuota)
      algo == computeRefundDueV2(pool.orders, usedQuota)
      dueCents == clampDue(algo.due_cents, totalNetPaidCents)
      stripePart == stripePlanCents(dueCents, stripeNetPaidCents)
  IN  [ error |-> IF stripeMultipleCurrencies(user.stripe_customer, chargeList)
                    THEN "stripe_multiple_currencies" ELSE "",
        quota |-> quotaNow,
        usedQuota |-> usedQuota,
        remainingCentsByQuota |-> quotaToCentsFloor(quotaNow),
        yipayPaidCents |-> yipayPaidCents,
        yipayRefundedCents |-> yipayRefundedCents,
        yipayNetPaidCents |-> yipayNetPaidCents,
        stripeCustomer |-> user.stripe_customer,
        stripeNetPaidCents |-> stripeNetPaidCents,
        stripeRefundableCharges |-> SortByCreatedDesc(refundable),
        totalNetPaidCents |-> totalNetPaidCents,
        dueCents |-> dueCents,
        due_cents_unclamped |-> algo.due_cents,
        gift_pool_quota |-> pool.gift_pool_quota,
        orders_sorted |-> algo.orders_sorted,
        plan |-> [ stripeCents |-> stripePart,
                   yipayCents |-> dueCents - stripePart ] ]

(***************************************************************************)
(* utils/fee.ts and the derivation of POST /:userId/refund                 *)
(***************************************************************************)
DEFAULT_FEE_BPS == 500

\* mutant of applyFeeToCents: the fee is rounded up
applyFeeToCents_FeeCeil(grossCents, feeBps) ==
  LET feeCents == BigIntDiv(grossCents * feeBps + 9999, 10000)
  IN  [ feeCents |-> feeCents, netCents |-> grossCents - feeCents ]

applyFeeToCents(grossCents, feeBps) ==
  LET feeCents == BigIntDiv(grossCents * feeBps, 10000)
  IN  [ feeCents |-> feeCents, netCents |-> grossCents - feeCents ]

\* mutant of isDryRun: the dry_run flag of the body is ignored
isDryRun_Ignored(req) == FALSE

isDryRun(req) == req.dry_run

\* mutant of targetQuotaDelta: clear_balance is ignored
targetQuotaDelta_OfGross(req, quote, grossCents) == centsToQuota(grossCents)

\* the quota a batch takes from the user
targetQuotaDelta(req, quote, grossCents) ==
  IF req.clear_balance THEN quote.quota ELSE centsToQuota(grossCents)

\* The request body after parsing: amount, min and max are "absent", "invalid"
\* (yuanStringToCents or the sign check threw) or "ok" with their cents; fee_bps
\* is what parseFeePercentToBps returned, fee_ok = FALSE when it threw.
\* Returns the error of the derivation ("" when none) and the amounts.
deriveRefund(quote, req) ==
  LET requestedCents == req.amount_cents
      grossCents == IF req.amount = "absent" THEN quote.dueCents
                    ELSE IF requestedCents > quote.dueCents THEN quote.dueCents
                    ELSE requestedCents
      fee == applyFeeToCents(grossCents, req.fee_bps)
      outOfRange == \/ (req.min = "ok" /\ fee.netCents < req.min_cents)
                    \/ (req.max = "ok" /\ fee.netCents > req.max_cents)
      error ==
        IF quote.error # "" THEN quote.error
        ELSE IF ~req.fee_ok THEN "invalid_fee_percent"
        ELSE IF req.amount = "invalid" THEN "invalid_amount"
        ELSE IF req.amount = "ok" /\ requestedCents <= 0 THEN "invalid_amount"
        ELSE IF grossCents <= 0 THEN "nothing_to_refund"
        ELSE IF fee.netCents <= 0 THEN "fee_too_high"
        ELSE IF req.min = "invalid" THEN "invalid_min_refund_amount"
        ELSE IF req.max = "invalid" THEN "invalid_max_refund_amount"
        ELSE IF req.min = "ok" /\ req.max = "ok" /\ req.min_cents > req.max_cents
          THEN "invalid_refund_amount_range"
        ELSE IF outOfRange THEN "refund_amount_out_of_range"
        ELSE ""
  IN  [ error |-> error,
        dry_run |-> error = "" /\ isDryRun(req),
        grossCents |-> grossCents,
        feeCents |-> fee.feeCents,
        netCents |-> fee.netCents,
        targetQuotaDelta |-> targetQuotaDelta(req, quote, grossCents) ]

\* mutant of allocateQuotaDelta: each leg takes the quota of its own cents
allocateQuotaDelta_PerCent(amountCents, remainingCents, remainingQuotaDelta) ==
  IF amountCents <= 0 THEN 0 ELSE centsToQuota(amountCents)

allocateQuotaDelta(amountCents, remainingCents, remainingQuotaDelta) ==
  IF amountCents <= 0 THEN 0
  ELSE IF amountCents >= remainingCents THEN remainingQuotaDelta
  ELSE IF remainingCents <= 0 THEN 0
  ELSE BigIntDiv(remainingQuotaDelta * amountCents, remainingCents)

(***************************************************************************)
(* State.                                                                  *)
(***************************************************************************)
VARIABLES
  algoOrders,   \* SpecAlgo: the orders argument of computeRefundDueV2
  algoUsed,     \* SpecAlgo: the usedTotalQuota argument
  algoResult,   \* SpecAlgo: << the value returned >>, << >> before the call
  user,         \* business database: the users row (quota, used_quota, stripe_customer)
  top_ups,      \* business database: the rows of top_ups, in table order
  charges,      \* card processor: the customer's charges, in listing order
  refunds,      \* audit store: the rows of refunds; a row's id is its index
  extRefunds,   \* the refunds the providers have issued, with their keys
  now,          \* Date.now()
  batch,        \* the POST /:userId/refund requests in flight
  legacy,       \* the POST /api/refund request in flight
  quota0,       \* the quota the user held before any refund
  state,        \* refundEstimate.ts: the module-level state (EstimateState)
  estJobs,      \* the computeRefundEstimate runs: locals and position of each
  estEnv,       \* what the estimate reads: users, top-ups, refunds, charges
  estHist,      \* history: start requests seen, the last successful result
  pubResponse   \* publicRefunds.ts: << the last response sent >>, << >> before

algoVars == << algoOrders, algoUsed, algoResult >>

estVars == << state, estJobs, estEnv, estHist >>

pubVars == << pubResponse >>

dbVars == << user, top_ups, charges, refunds, extRefunds >>

vars == << algoOrders, algoUsed, algoResult, user, top_ups, charges, refunds,
           extRefunds, now, batch, legacy, quota0, state, estJobs, estEnv, estHist,
           pubResponse >>

(***************************************************************************)
(* Bounds of the engine model.                                             *)
(***************************************************************************)
\* concurrent POST /:userId/refund requests
MaxBatches == 2
\* the clock advances at most to MaxNow
MaxNow == 1
\* requests of either route over a run
MaxRequests == 2

BatchIds == 1..MaxBatches

\* concurrent POST /api/refund requests, numbered in the order of their selects
MaxLegacy == 2

LegacyIds == 1..MaxLegacy

\* the locals of a leg before the first leg
NoLeg ==
  [ provider |-> "", target |-> "", amountCents |-> 0, deltaQuota |-> 0,
    outRefundNo |-> << >>, topupCents |-> 0, already |-> 0, topupStatus |-> "",
    logId |-> 0, providerSucceeded |-> FALSE ]

\* touched, calls and reservedNet are history: whether the request has written
\* anything or called a provider, its provider calls, and what it has taken
\* from users.quota and not given back
IdleBatch ==
  [ pc |-> "idle", req |-> << >>, userRow |-> << >>, acctRows |-> << >>,
    quote |-> << >>, grossCents |-> 0, feeCents |-> 0, netCents |-> 0,
    batchId |-> 0, targetQuotaDelta |-> 0, remainingCents |-> 0,
    remainingQuotaDelta |-> 0, phase |-> "", idx |-> 0, leg |-> NoLeg,
    topups |-> << >>, refundedByTopup |-> << >>, operations |-> << >>,
    result |-> "", error |-> "", touched |-> FALSE, calls |-> 0,
    reservedNet |-> 0 ]

IdleLegacy ==
  [ pc |-> "idle", tradeNo |-> "", refundMoney |-> 0, topup |-> << >>,
    quotaDelta |-> 0, outRefundNo |-> << >>, refundRowId |-> 0,
    providerResult |-> << >>, result |-> "", error |-> "" ]

\* no engine activity: the values of the engine variables in SpecAlgo
EngineOff ==
  /\ user = [quota |-> 0, used_quota |-> 0, stripe_customer |-> ""]
  /\ top_ups = << >>
  /\ charges = << >>
  /\ refunds = << >>
  /\ extRefunds = << >>
  /\ now = 0
  /\ batch = [b \in BatchIds |-> IdleBatch]
  /\ legacy = [r \in LegacyIds |-> IdleLegacy]
  /\ quota0 = 0

(***************************************************************************)
(* routes/refundEstimate.ts: the state of the fleet estimate.              *)
(***************************************************************************)
\* computeRefundEstimate runs over a run of the model
MaxEstimateJobs == 3
\* start requests (POST /recompute, GET /?autostart=1) over a run
MaxStartRequests == 4

EstJobIds == 1..MaxEstimateJobs

\* let state = { status: 'idle' }; an absent field is << >>, a present one << v >>
IdleState ==
  [ status |-> "idle", started_at |-> << >>, progress |-> << >>, result |-> << >>,
    last_result |-> << >>, error |-> "" ]

\* the locals of a computeRefundEstimate run that has not started; last is the
\* constant of the startEstimateJob call that launched it; poolIndex holds the
\* index of each worker of asyncPool and listing the customers whose listing is
\* in flight; listCalls (the listCustomerCharges calls, in order) and poolEnd
\* (state.progress when asyncPool resolved) are history
IdleJob ==
  [ pc |-> "idle", last |-> << >>, users |-> << >>, stripeCustomers |-> << >>,
    listing |-> {}, poolIndex |-> << >>, listCalls |-> << >>, poolEnd |-> << >>,
    stripeNetPaidByCustomerCny |-> << >>,
    stripeChargesByCustomerCny |-> << >>, stripeCustomersFailed |-> 0,
    stripeCustomersMultiCurrency |-> 0, stripeCustomersNonCny |-> 0,
    failedCustomers |-> {}, outcome |-> "" ]

NoEstimateEnv ==
  [ users |-> << >>, refunds |-> << >>, charges |-> << >>, stripeClient |-> FALSE ]

NoEstimateHistory == [ starts |-> 0, ignored |-> 0, completed |-> 0, lastOk |-> << >> ]

\* no estimate activity: the values of the estimate variables elsewhere
EstimateOff ==
  /\ state = IdleState
  /\ estJobs = [j \in EstJobIds |-> IdleJob]
  /\ estEnv = NoEstimateEnv
  /\ estHist = NoEstimateHistory

\* no request to the public routes: the value of pubResponse elsewhere
PublicOff == pubResponse = << >>

(***************************************************************************)
(* The providers: providers/stripe.ts stripeRefund, providers/yipay.ts     *)
(* yipayRefund. A provider keeps the refunds it issued by key and answers  *)
(* a repeated key with the refund it already issued; it refuses to refund  *)
(* more than what is left of the payment; any call may fail.               *)
(***************************************************************************)
ExtIssued(provider, key) ==
  \E i \in 1..Len(extRefunds) :
    extRefunds[i].provider = provider /\ extRefunds[i].key = key

ExtAmount(provider, key) ==
  extRefunds[CHOOSE i \in 1..Len(extRefunds) :
               extRefunds[i].provider = provider /\ extRefunds[i].key = key].amount

ChargeRemaining(chargeId) ==
  LET c == charges[CHOOSE i \in 1..Len(charges) : charges[i].id = chargeId]
  IN  IF c.amount > c.amount_refunded THEN c.amount - c.amount_refunded ELSE 0

\* what the aggregator still holds of a payment
YipayRemaining(tradeNo) ==
  LET t == top_ups[CHOOSE i \in 1..Len(top_ups) : top_ups[i].trade_no = tradeNo]
      out == SumMap(extRefunds, LAMBDA e :
               IF e.provider = "yipay" /\ e.target = tradeNo THEN e.amount ELSE 0)
  IN  IF t.money_cents > out THEN t.money_cents - out ELSE 0

\* mutant of stripeIdempotencyKey: the call carries a key of its own
stripeIdempotencyKey_Fresh(outRefundNo) == << outRefundNo, Len(extRefunds) >>

\* the idempotencyKey option stripeRefund passes to refunds.create
stripeIdempotencyKey(outRefundNo) == outRefundNo

\* stripeRefund succeeds: amountMinor = 0 stands for an absent amount (the
\* whole remainder). The refund is issued unless the key was seen before.
StripeRefundOk(chargeId, amountMinor, outRefundNo, amountOut) ==
  LET key == stripeIdempotencyKey(outRefundNo)
      remaining == ChargeRemaining(chargeId)
      amount == IF amountMinor = 0 THEN remaining ELSE amountMinor
  IN  IF ExtIssued("stripe", key)
        THEN /\ amountOut = ExtAmount("stripe", key)
             /\ UNCHANGED << charges, extRefunds >>
        ELSE /\ amount > 0
             /\ amount <= remaining
             /\ amountOut = amount
             /\ charges' = [i \in 1..Len(charges) |->
                              IF charges[i].id = chargeId
                                THEN [charges[i] EXCEPT !.amount_refunded = @ + amount]
                                ELSE charges[i]]
             /\ extRefunds' = Append(extRefunds,
                  [provider |-> "stripe", key |-> key, target |-> chargeId,
                   amount |-> amount])

\* yipayRefund succeeds (code = 0); out_refund_no is the aggregator's key
YipayRefundOk(tradeNo, moneyCents, outRefundNo) ==
  IF ExtIssued("yipay", outRefundNo)
    THEN UNCHANGED << charges, extRefunds >>
    ELSE /\ moneyCents > 0
         /\ moneyCents <= YipayRemaining(tradeNo)
         /\ extRefunds' = Append(extRefunds,
              [provider |-> "yipay", key |-> outRefundNo, target |-> tradeNo,
               amount |-> moneyCents])
         /\ UNCHANGED charges

(***************************************************************************)
(* routes/users.ts: POST /:userId/refund, one action per awaited operation *)
(* (the operation and the synchronous code that follows it).               *)
(***************************************************************************)
\* SELECT ... FOR UPDATE of the legacy path locks the top-up and the user row
\* until commit or rollback; UPDATEs of other connections wait meanwhile
LegacyHolds(r) == legacy[r].pc \in {"insert", "call", "updateCharge", "updateRow", "commit"}

LegacyHoldsLock == \E r \in LegacyIds : LegacyHolds(r)

SetBatch(b, rec) == batch' = [batch EXCEPT ![b] = rec]

\* the requests received so far
Received ==
  Cardinality({b \in BatchIds : batch[b].pc # "idle"})
    + Cardinality({r \in LegacyIds : legacy[r].pc # "idle"})

\* the response is sent
Respond(s, result, error) == [s EXCEPT !.pc = "done", !.result = result, !.error = error]

\* mutant of finishBatch: the ok response whatever remains
finishBatch_AlwaysOk(s) == Respond(s, "ok", "")

\* after both loops: refund_incomplete or the ok response
finishBatch(s) ==
  IF s.remainingCents > 0 THEN Respond(s, "refund_incomplete", "")
  ELSE Respond(s, "ok", "")

\* the aggregator loop from s.idx on: the next leg, or the end of the loop
RECURSIVE yipayNextLeg(_)
yipayNextLeg(s) ==
  IF s.idx > Len(s.topups) \/ s.remainingCents <= 0 THEN finishBatch(s)
  ELSE LET topup == s.topups[s.idx]
           topupCents == topup.money_cents
           already == s.refundedByTopup[topup.trade_no]
           refundable == IF topupCents > already THEN topupCents - already ELSE 0
           amountCents == IF s.remainingCents > refundable THEN refundable
                          ELSE s.remainingCents
           deltaQuota == allocateQuotaDelta(amountCents, s.remainingCents,
                                            s.remainingQuotaDelta)
       IN  IF refundable <= 0 THEN yipayNextLeg([s EXCEPT !.idx = @ + 1])
           ELSE [s EXCEPT
                  !.leg = [ provider |-> "yipay", target |-> topup.trade_no,
                            amountCents |-> amountCents, deltaQuota |-> deltaQuota,
                            outRefundNo |-> << "yr", s.batchId, topup.trade_no,
                                               amountCents >>,
                            topupCents |-> topupCents, already |-> already,
                            topupStatus |-> topup.status,
                            logId |-> 0, providerSucceeded |-> FALSE ],
                  !.pc = IF deltaQuota > 0 THEN "reserve" ELSE "insert"]

\* after the card loop: the aggregator phase when something remains
afterStripe(s) ==
  IF s.remainingCents > 0
    THEN [s EXCEPT !.phase = "yipay", !.pc = "yListTopups", !.idx = 1]
    ELSE finishBatch(s)

\* the card loop from s.idx on
RECURSIVE stripeNextLeg(_)
stripeNextLeg(s) ==
  IF s.idx > Len(s.quote.stripeRefundableCharges) \/ s.remainingCents <= 0
    THEN afterStripe(s)
  ELSE LET charge == s.quote.stripeRefundableCharges[s.idx]
           refundable == charge.remaining_cents
           amountCents == IF s.remainingCents > refundable THEN refundable
                          ELSE s.remainingCents
           deltaQuota == allocateQuotaDelta(amountCents, s.remainingCents,
                                            s.remainingQuotaDelta)
       IN  IF refundable <= 0 THEN stripeNextLeg([s EXCEPT !.idx = @ + 1])
           ELSE [s EXCEPT
                  !.leg = [ provider |-> "stripe", target |-> charge.id,
                            amountCents |-> amountCents, deltaQuota |-> deltaQuota,
                            outRefundNo |-> << "sr", s.batchId, charge.id,
                                               amountCents >>,
                            topupCents |-> 0, already |-> 0, topupStatus |-> "",
                            logId |-> 0, providerSucceeded |-> FALSE ],
                  !.pc = IF deltaQuota > 0 THEN "reserve" ELSE "insert"]

nextLeg(s) == IF s.phase = "stripe" THEN stripeNextLeg(s) ELSE yipayNextLeg(s)

\* the quote is complete: derivation, dry run, and the start of the execution
afterQuote(s, quote) ==
  LET d == deriveRefund(quote, s.req)
      q == [s EXCEPT !.quote = quote, !.grossCents = d.grossCents,
                     !.feeCents = d.feeCents, !.netCents = d.netCents]
  IN  IF quote.error # "" THEN Respond([s EXCEPT !.quote = quote], "refund_failed", d.error)
      ELSE IF d.error # "" THEN Respond(q, d.error, "")
      ELSE IF d.dry_run THEN Respond(q, "dry_run", "")
      ELSE LET x == [q EXCEPT !.batchId = now,
                              !.targetQuotaDelta = d.targetQuotaDelta,
                              !.remainingCents = d.netCents,
                              !.remainingQuotaDelta = d.targetQuotaDelta,
                              !.idx = 1]
           IN  IF /\ quote.stripeCustomer # ""
                  /\ Len(quote.stripeRefundableCharges) > 0
                 THEN stripeNextLeg([x EXCEPT !.phase = "stripe"])
                 ELSE afterStripe(x)

\* getUserById of buildRefundQuote, for a request with body req
BatchGetUser(b, req) ==
  /\ batch[b].pc = "idle"
  /\ Received < MaxRequests
  /\ \A c \in BatchIds : c < b => batch[c].pc # "idle"
  /\ SetBatch(b, [batch[b] EXCEPT !.pc = "listRefunds", !.req = req, !.userRow = user])
  /\ UNCHANGED << algoVars, estVars, pubVars, dbVars, now, legacy, quota0 >>

\* listRefundsForUserAccounting of buildRefundQuote; without a card customer
\* the quote is complete (the top_ups reads that follow read immutable columns)
BatchListRefunds(b) ==
  LET s == batch[b]
      rows == listRefundsForUserAccounting(refunds)
  IN  /\ s.pc = "listRefunds"
      /\ IF s.userRow.stripe_customer # ""
           THEN SetBatch(b, [s EXCEPT !.pc = "listCharges", !.acctRows = rows])
           ELSE SetBatch(b, afterQuote(s, buildRefundQuote(s.userRow, rows, << >>, top_ups)))
      /\ UNCHANGED << algoVars, estVars, pubVars, dbVars, now, legacy, quota0 >>

\* listCustomerCharges of buildRefundQuote, then the rest of the handler up to
\* the first write
BatchListCharges(b) ==
  LET s == batch[b]
  IN  /\ s.pc = "listCharges"
      /\ SetBatch(b, afterQuote([s EXCEPT !.acctRows = << >>],
                                buildRefundQuote(s.userRow, s.acctRows, charges, top_ups)))
      /\ UNCHANGED << algoVars, estVars, pubVars, dbVars, now, legacy, quota0 >>

\* mutant of reserveMatches: the update is not conditional
reserveMatches_Always(quota, deltaQuota) == TRUE

\* where id = ? and quota >= ?: the row is matched (affectedRows = 1)
reserveMatches(quota, deltaQuota) == quota >= deltaQuota

\* reserveQuota: update users set quota = quota - ? where quota >= ?
BatchReserve(b) ==
  LET s == batch[b]
      d == s.leg.deltaQuota
  IN  /\ s.pc = "reserve"
      /\ ~LegacyHoldsLock
      /\ IF reserveMatches(user.quota, d)
           THEN /\ user' = [user EXCEPT !.quota = @ - d]
                /\ SetBatch(b, [s EXCEPT !.pc = "insert", !.touched = TRUE,
                                         !.reservedNet = @ + d])
           ELSE /\ SetBatch(b, Respond(s, "refund_failed", "insufficient_user_quota"))
                /\ UNCHANGED user
      /\ UNCHANGED << algoVars, estVars, pubVars, top_ups, charges, refunds, extRefunds, now,
                      legacy, quota0 >>

\* mutant of legFailed: the catch block does not release the reserve
legFailed_NoRelease(s, error) ==
  IF s.leg.logId # 0 THEN [s EXCEPT !.pc = "markFailed", !.error = error]
  ELSE Respond(s, "refund_failed", error)

\* the catch block of a leg whose provider has not succeeded: release the
\* reserve, then mark the row failed when there is one
legFailed(s, error) ==
  IF s.leg.deltaQuota > 0 THEN [s EXCEPT !.pc = "release", !.error = error]
  ELSE IF s.leg.logId # 0 THEN [s EXCEPT !.pc = "markFailed", !.error = error]
  ELSE Respond(s, "refund_failed", error)

\* mutant of pendingRow: the row is inserted as already succeeded
pendingRow_InsertedSucceeded(leg) ==
  [ provider |-> leg.provider,
    topup_trade_no |-> IF leg.provider = "yipay" THEN leg.target ELSE "",
    stripe_charge_id |-> IF leg.provider = "stripe" THEN leg.target ELSE "",
    refund_money_minor |-> leg.amountCents,
    quota_delta |-> leg.deltaQuota,
    out_refund_no |-> leg.outRefundNo,
    status |-> "succeeded",
    error_message |-> "" ]

\* the values of insertRefundLog: status 'pending'
pendingRow(leg) ==
  [ provider |-> leg.provider,
    topup_trade_no |-> IF leg.provider = "yipay" THEN leg.target ELSE "",
    stripe_charge_id |-> IF leg.provider = "stripe" THEN leg.target ELSE "",
    refund_money_minor |-> leg.amountCents,
    quota_delta |-> leg.deltaQuota,
    out_refund_no |-> leg.outRefundNo,
    status |-> "pending",
    error_message |-> "" ]

\* insertRefundLog of the pending row: it is inserted, or the insert fails
BatchInsert(b) ==
  LET s == batch[b]
  IN  /\ s.pc = "insert"
      /\ \/ /\ refunds' = Append(refunds, pendingRow(s.leg))
            /\ SetBatch(b, [s EXCEPT !.pc = "call", !.touched = TRUE,
                                     !.leg.logId = Len(refunds) + 1])
         \/ /\ SetBatch(b, legFailed(s, "refund_log_insert_failed"))
            /\ UNCHANGED refunds
      /\ UNCHANGED << algoVars, estVars, pubVars, user, top_ups, charges, extRefunds, now,
                      legacy, quota0 >>

\* stripeRefund / yipayRefund with the leg's out_refund_no: it returns or throws
BatchCall(b) ==
  LET s == batch[b]
      leg == s.leg
  IN  /\ s.pc = "call"
      /\ \/ /\ IF leg.provider = "stripe"
                 THEN \E a \in 1..leg.amountCents :
                        StripeRefundOk(leg.target, leg.amountCents, leg.outRefundNo, a)
                 ELSE YipayRefundOk(leg.target, leg.amountCents, leg.outRefundNo)
            /\ SetBatch(b, [s EXCEPT !.pc = "markSucceeded", !.touched = TRUE,
                                     !.calls = @ + 1,
                                     !.leg.providerSucceeded = TRUE])
         \/ /\ SetBatch(b, legFailed([s EXCEPT !.touched = TRUE, !.calls = @ + 1],
                                     "provider_error"))
            /\ UNCHANGED << charges, extRefunds >>
      /\ UNCHANGED << algoVars, estVars, pubVars, user, top_ups, refunds, now, legacy, quota0 >>

\* operations.push, remainingCents -= amountCents, remainingQuotaDelta -=
\* deltaQuota, refundedByTopup.set
legCounted(s, warning) ==
  LET leg == s.leg
  IN  [s EXCEPT !.operations = Append(@, [ id |-> leg.logId, provider |-> leg.provider,
                                           amountCents |-> leg.amountCents,
                                           deltaQuota |-> leg.deltaQuota,
                                           warning |-> warning ]),
                !.remainingCents = @ - leg.amountCents,
                !.remainingQuotaDelta = @ - leg.deltaQuota,
                !.refundedByTopup =
                   IF leg.provider = "yipay"
                     THEN [@ EXCEPT ![leg.target] = leg.already + leg.amountCents]
                     ELSE @,
                !.idx = @ + 1]

\* the leg is counted; then the top-up is marked when it is refunded in full,
\* or the loop goes on
legSettled(s, warning) ==
  IF /\ s.leg.provider = "yipay"
     /\ s.leg.already + s.leg.amountCents >= s.leg.topupCents
     /\ s.leg.topupStatus # "refund"
    THEN [legCounted(s, warning) EXCEPT !.pc = "markTopup"]
    ELSE nextLeg(legCounted(s, warning))

\* mutant of updateFailedAfterProvider: the failed update fails the leg
updateFailedAfterProvider_FailsLeg(s) == legFailed(s, "refund_log_update_failed")

\* catch (err) { warning = ... } around updateRefundLog(logId, succeeded)
updateFailedAfterProvider(s) == legSettled(s, "refund_log_update_failed")

\* after the provider succeeded: the row is updated to succeeded (a failure of
\* the update is a warning), the leg is counted, and the loop goes on
BatchMarkSucceeded(b) ==
  LET s == batch[b]
  IN  /\ s.pc = "markSucceeded"
      /\ \/ /\ refunds' = [refunds EXCEPT ![s.leg.logId].status = "succeeded"]
            /\ SetBatch(b, legSettled(s, ""))
         \/ /\ UNCHANGED refunds
            /\ SetBatch(b, updateFailedAfterProvider(s))
      /\ UNCHANGED << algoVars, estVars, pubVars, user, top_ups, charges, extRefunds, now,
                      legacy, quota0 >>

\* update top_ups set status = 'refund' where trade_no = ?; when the statement
\* throws, the catch block rethrows (the provider has succeeded: no release, no
\* failed update) and the request answers refund_failed
BatchMarkTopup(b) ==
  LET s == batch[b]
  IN  /\ s.pc = "markTopup"
      /\ ~(\E r \in LegacyIds : LegacyHolds(r) /\ legacy[r].tradeNo = s.leg.target)
      /\ \/ /\ top_ups' = [i \in 1..Len(top_ups) |->
                               IF top_ups[i].trade_no = s.leg.target
                                 THEN [top_ups[i] EXCEPT !.status = "refund"]
                                 ELSE top_ups[i]]
            /\ SetBatch(b, nextLeg(s))
         \/ /\ UNCHANGED top_ups
            /\ SetBatch(b, Respond(s, "refund_failed", "mysql_error"))
      /\ UNCHANGED << algoVars, estVars, pubVars, user, charges, refunds, extRefunds, now,
                      legacy, quota0 >>

\* mutant of releaseAmount: the compensation gives nothing back
releaseAmount_Nothing(deltaQuota) == 0

\* the amount releaseQuota adds
releaseAmount(deltaQuota) == deltaQuota

\* releaseQuota: update users set quota = quota + ?
BatchRelease(b) ==
  LET s == batch[b]
      r == [s EXCEPT !.reservedNet = @ - releaseAmount(s.leg.deltaQuota)]
  IN  /\ s.pc = "release"
      /\ ~LegacyHoldsLock
      /\ user' = [user EXCEPT !.quota = @ + releaseAmount(s.leg.deltaQuota)]
      /\ SetBatch(b, IF s.leg.logId # 0 THEN [r EXCEPT !.pc = "markFailed"]
                     ELSE Respond(r, "refund_failed", s.error))
      /\ UNCHANGED << algoVars, estVars, pubVars, top_ups, charges, refunds, extRefunds, now,
                      legacy, quota0 >>

\* updateRefundLog(logId, failed) in the catch block: done, or it throws
BatchMarkFailed(b) ==
  LET s == batch[b]
  IN  /\ s.pc = "markFailed"
      /\ \/ /\ refunds' = [refunds EXCEPT ![s.leg.logId].status = "failed",
                                          ![s.leg.logId].error_message = s.error]
            /\ SetBatch(b, Respond(s, "refund_failed", s.error))
         \/ /\ UNCHANGED refunds
            /\ SetBatch(b, Respond(s, "refund_failed", "refund_log_update_failed"))
      /\ UNCHANGED << algoVars, estVars, pubVars, user, top_ups, charges, extRefunds, now,
                      legacy, quota0 >>

\* rows of listUserYipayTopups: order by complete_time desc
RECURSIVE InsertByCompleteDesc(_, _)
InsertByCompleteDesc(sorted, t) ==
  IF sorted = << >> THEN << t >>
  ELSE IF Head(sorted).complete_time >= t.complete_time
    THEN << Head(sorted) >> \o InsertByCompleteDesc(Tail(sorted), t)
  ELSE << t >> \o sorted

RECURSIVE SortByCompleteDesc(_)
SortByCompleteDesc(s) ==
  IF s = << >> THEN << >>
  ELSE InsertByCompleteDesc(SortByCompleteDesc(SubSeq(s, 1, Len(s) - 1)), s[Len(s)])

\* mutant of listUserYipayTopups: only the newest top-up is listed
listUserYipayTopups_OnlyNewest(topups) ==
  SubSeq(SortByCompleteDesc(listUserYipayTopupsForAlgo(topups)), 1, 1)

listUserYipayTopups(topups) == SortByCompleteDesc(listUserYipayTopupsForAlgo(topups))

BatchYListTopups(b) ==
  LET s == batch[b]
  IN  /\ s.pc = "yListTopups"
      /\ SetBatch(b, [s EXCEPT !.pc = "yListRefunds",
                               !.topups = listUserYipayTopups(top_ups)])
      /\ UNCHANGED << algoVars, estVars, pubVars, dbVars, now, legacy, quota0 >>

\* listRefundsForUserAccounting before the aggregator loop, and refundedByTopup
BatchYListRefunds(b) ==
  LET s == batch[b]
      rows == listRefundsForUserAccounting(refunds)
      byTopup == [t \in {s.topups[i].trade_no : i \in 1..Len(s.topups)} |->
                    RefundedCentsByTopup(rows, t)]
  IN  /\ s.pc = "yListRefunds"
      /\ SetBatch(b, yipayNextLeg([s EXCEPT !.refundedByTopup = byTopup, !.idx = 1]))
      /\ UNCHANGED << algoVars, estVars, pubVars, dbVars, now, legacy, quota0 >>

(***************************************************************************)
(* routes/refundCreate.ts: POST /api/refund, the legacy single-top-up      *)
(* path. The MySQL transaction holds the row locks from the select to the  *)
(* commit or rollback; its own updates become visible at the commit.       *)
(***************************************************************************)
TopupByTradeNo(tradeNo) ==
  top_ups[CHOOSE i \in 1..Len(top_ups) : top_ups[i].trade_no = tradeNo]

\* asBigInt(topup.amount): the yuan amount of the column, truncated
legacyAmountQuota(topup) == topup.amount_cents \div 100

SetLegacy(r, rec) == legacy' = [legacy EXCEPT ![r] = rec]

LegacyDone(r, result, error) ==
  SetLegacy(r, [legacy[r] EXCEPT !.pc = "done", !.result = result, !.error = error])

\* the catch block: rollback, then the failed update when a row was inserted
LegacyThrow(l, error) ==
  IF l.refundRowId # 0 THEN [l EXCEPT !.pc = "markFailed", !.error = error]
  ELSE [l EXCEPT !.pc = "done", !.result = "refund_failed", !.error = error]

\* mutant of forUpdateBlocked: the select takes no lock
forUpdateBlocked_NoLock(tradeNo) == FALSE

\* select ... for update waits while another transaction holds the lock of the
\* top-up row or of the users row joined to it; every top-up of the model
\* belongs to the one user
forUpdateBlocked(tradeNo) == LegacyHoldsLock

\* beginTransaction, select ... for update, and the checks before the insert;
\* refundMoney = 0 stands for an absent refundMoney
LegacySelect(r, tradeNo, refundMoney) ==
  LET topup == TopupByTradeNo(tradeNo)
      isYipay == IsYipayMethod(topup.payment_method)
      amountQuota == legacyAmountQuota(topup)
      quotaDelta == IF isYipay THEN centsToQuota(refundMoney)
                    ELSE IF amountQuota > 0 THEN amountQuota ELSE 0
      l == [legacy[r] EXCEPT !.tradeNo = tradeNo, !.refundMoney = refundMoney,
                          !.topup = topup, !.quotaDelta = quotaDelta,
                          !.outRefundNo = << "refund", tradeNo, now >>]
  IN  /\ legacy[r].pc = "idle"
      /\ \A q \in LegacyIds : q < r => legacy[q].pc # "idle"
      /\ ~forUpdateBlocked(tradeNo)
      /\ Received < MaxRequests
      /\ SetLegacy(r,
           IF topup.status # "success"
             THEN [l EXCEPT !.pc = "done", !.result = "topup_not_refundable"]
           ELSE IF isYipay /\ refundMoney = 0
             THEN LegacyThrow(l, "refundMoney is required for alipay/wxpay")
           ELSE IF quotaDelta > 0 /\ user.quota < quotaDelta
             THEN [l EXCEPT !.pc = "done", !.result = "insufficient_user_quota"]
           ELSE [l EXCEPT !.pc = "insert"])
      /\ UNCHANGED << algoVars, estVars, pubVars, dbVars, now, batch, quota0 >>

legacyPendingRow(l) ==
  [ provider |-> IF IsYipayMethod(l.topup.payment_method) THEN "yipay" ELSE "stripe",
    topup_trade_no |-> l.tradeNo,
    stripe_charge_id |-> "",
    refund_money_minor |-> 0,
    quota_delta |-> l.quotaDelta,
    out_refund_no |-> l.outRefundNo,
    status |-> "pending",
    error_message |-> "" ]

\* the insert of the pending row, before the provider call and before any
\* change of users.quota
LegacyInsert(r) ==
  /\ legacy[r].pc = "insert"
  /\ \/ /\ refunds' = Append(refunds, legacyPendingRow(legacy[r]))
        /\ SetLegacy(r, [legacy[r] EXCEPT !.pc = "call", !.refundRowId = Len(refunds) + 1])
     \/ /\ UNCHANGED refunds
        /\ LegacyDone(r, "refund_log_insert_failed", "")
  /\ UNCHANGED << algoVars, estVars, pubVars, user, top_ups, charges, extRefunds, now, batch,
                  quota0 >>

\* yipayRefund with the operator's refundMoney, or stripeRefund of the whole
\* remainder of the charge the trade_no names
LegacyCall(r) ==
  LET isYipay == IsYipayMethod(legacy[r].topup.payment_method)
  IN  /\ legacy[r].pc = "call"
      /\ \/ /\ isYipay
            /\ YipayRefundOk(legacy[r].tradeNo, legacy[r].refundMoney, legacy[r].outRefundNo)
            /\ SetLegacy(r, [legacy[r] EXCEPT !.pc = "updateRow"])
         \/ /\ ~isYipay
            /\ \E i \in 1..Len(charges) : charges[i].id = legacy[r].tradeNo
            /\ \E a \in 1..ChargeRemaining(legacy[r].tradeNo) :
                 /\ StripeRefundOk(legacy[r].tradeNo, 0, legacy[r].outRefundNo, a)
                 /\ SetLegacy(r, [legacy[r] EXCEPT !.pc = "updateCharge",
                                                   !.providerResult = << a >>,
                                                   !.quotaDelta = centsToQuota(a)])
         \/ /\ SetLegacy(r, LegacyThrow(legacy[r], "provider_error"))
            /\ UNCHANGED << charges, extRefunds >>
      /\ UNCHANGED << algoVars, estVars, pubVars, user, top_ups, refunds, now, batch, quota0 >>

\* the unchecked update of stripe_charge_id (card path)
LegacyUpdateCharge(r) ==
  /\ legacy[r].pc = "updateCharge"
  /\ \/ refunds' = [refunds EXCEPT ![legacy[r].refundRowId].stripe_charge_id = legacy[r].tradeNo]
     \/ UNCHANGED refunds
  /\ SetLegacy(r, [legacy[r] EXCEPT !.pc = "updateRow"])
  /\ UNCHANGED << algoVars, estVars, pubVars, user, top_ups, charges, extRefunds, now, batch,
                  quota0 >>

\* the unchecked update of refund_money_minor and quota_delta
LegacyUpdateRow(r) ==
  LET cents == IF IsYipayMethod(legacy[r].topup.payment_method) THEN legacy[r].refundMoney
               ELSE legacy[r].providerResult[1]
  IN  /\ legacy[r].pc = "updateRow"
      /\ \/ refunds' = [refunds EXCEPT ![legacy[r].refundRowId].refund_money_minor = cents,
                                       ![legacy[r].refundRowId].quota_delta = legacy[r].quotaDelta]
         \/ UNCHANGED refunds
      /\ SetLegacy(r, [legacy[r] EXCEPT !.pc = "commit"])
      /\ UNCHANGED << algoVars, estVars, pubVars, user, top_ups, charges, extRefunds, now,
                      batch, quota0 >>

\* update top_ups, the conditional update of users.quota, and the commit; or
\* the quota update matches no row and the transaction is rolled back
LegacyCommit(r) ==
  /\ legacy[r].pc = "commit"
  /\ IF legacy[r].quotaDelta > 0 /\ user.quota < legacy[r].quotaDelta
       THEN /\ SetLegacy(r, LegacyThrow(legacy[r], "insufficient_user_quota"))
            /\ UNCHANGED << user, top_ups >>
       ELSE /\ top_ups' = [i \in 1..Len(top_ups) |->
                             IF top_ups[i].trade_no = legacy[r].tradeNo
                               THEN [top_ups[i] EXCEPT !.status = "refund"]
                               ELSE top_ups[i]]
            /\ user' = [user EXCEPT !.quota = @ - legacy[r].quotaDelta]
            /\ SetLegacy(r, [legacy[r] EXCEPT !.pc = "markSucceeded"])
  /\ UNCHANGED << algoVars, estVars, pubVars, charges, refunds, extRefunds, now, batch, quota0 >>

\* the unchecked update to succeeded, and the ok response
LegacyMarkSucceeded(r) ==
  /\ legacy[r].pc = "markSucceeded"
  /\ \/ refunds' = [refunds EXCEPT ![legacy[r].refundRowId].status = "succeeded"]
     \/ UNCHANGED refunds
  /\ LegacyDone(r, "ok", "")
  /\ UNCHANGED << algoVars, estVars, pubVars, user, top_ups, charges, extRefunds, now, batch,
                  quota0 >>

\* the unchecked update to failed in the catch block, and refund_failed
LegacyMarkFailed(r) ==
  /\ legacy[r].pc = "markFailed"
  /\ \/ refunds' = [refunds EXCEPT ![legacy[r].refundRowId].status = "failed",
                                   ![legacy[r].refundRowId].error_message = legacy[r].error]
     \/ UNCHANGED refunds
  /\ LegacyDone(r, "refund_failed", legacy[r].error)
  /\ UNCHANGED << algoVars, estVars, pubVars, user, top_ups, charges, extRefunds, now, batch,
                  quota0 >>

\* Date.now() advances
Tick ==
  /\ now < MaxNow
  /\ now' = now + 1
  /\ UNCHANGED << algoVars, estVars, pubVars, dbVars, batch, legacy, quota0 >>

(***************************************************************************)
(* Spec: the engine. Init draws the databases from a few histories; the    *)
(* requests draw their bodies from Requests.                               *)
(***************************************************************************)
\* a paid top-up: money and amount in cents of a yuan
Topup(tradeNo, method, moneyCents, amountCents, time) ==
  [ trade_no |-> tradeNo,
    order_id |-> IF method = "stripe" THEN "" ELSE "yipay:" \o tradeNo,
    payment_method |-> method, money_cents |-> moneyCents,
    amount_cents |-> amountCents, status |-> "success",
    create_time |-> time, complete_time |-> time ]

Charge(id, amount, created) ==
  [ id |-> id, order_id |-> "stripe:" \o id, amount |-> amount, amount_refunded |-> 0,
    currency |-> "cny", created |-> created, payment_intent |-> "", paid |-> TRUE,
    status |-> "succeeded" ]

Histories ==
  { \* one aggregator top-up that granted twice what was paid
    [ user |-> [quota |-> 4 * QUOTA_PER_CENT, used_quota |-> 0, stripe_customer |-> ""],
      top_ups |-> << Topup("t1", "alipay", 2, 4, 1) >>,
      charges |-> << >> ],
    \* two aggregator top-ups, one with a promotional grant
    [ user |-> [quota |-> 5 * QUOTA_PER_CENT, used_quota |-> 0, stripe_customer |-> ""],
      top_ups |-> << Topup("t1", "alipay", 2, 3, 1), Topup("t2", "wxpay", 2, 2, 2) >>,
      charges |-> << >> ],
    \* a card charge and an aggregator top-up
    [ user |-> [quota |-> 4 * QUOTA_PER_CENT, used_quota |-> 0, stripe_customer |-> "cus"],
      top_ups |-> << Topup("c1", "stripe", 2, 2, 1), Topup("t1", "alipay", 2, 2, 2) >>,
      charges |-> << Charge("c1", 2, 1) >> ],
    \* a card charge whose quota is half consumed
    [ user |-> [quota |-> QUOTA_PER_CENT, used_quota |-> QUOTA_PER_CENT,
                stripe_customer |-> "cus"],
      top_ups |-> << Topup("c1", "stripe", 2, 2, 1) >>,
      charges |-> << Charge("c1", 2, 1) >> ],
    \* a card customer charged in two currencies, and an aggregator top-up
    [ user |-> [quota |-> 4 * QUOTA_PER_CENT, used_quota |-> 0, stripe_customer |-> "cus"],
      top_ups |-> << Topup("c1", "stripe", 2, 2, 1), Topup("t1", "alipay", 2, 2, 2) >>,
      charges |-> << Charge("c1", 2, 1),
                     [Charge("c2", 2, 2) EXCEPT !.currency = "usd"] >> ] }

\* the body of a request that asks for everything, without fee
PlainRequest ==
  [ amount |-> "absent", amount_cents |-> 0, fee_ok |-> TRUE, fee_bps |-> 0,
    min |-> "absent", min_cents |-> 0, max |-> "absent", max_cents |-> 0,
    clear_balance |-> FALSE, dry_run |-> FALSE ]

Requests ==
  { PlainRequest,
    [PlainRequest EXCEPT !.clear_balance = TRUE],
    [PlainRequest EXCEPT !.dry_run = TRUE],
    [PlainRequest EXCEPT !.amount = "ok", !.amount_cents = 1],
    [PlainRequest EXCEPT !.fee_bps = 5000, !.clear_balance = TRUE],
    [PlainRequest EXCEPT !.fee_bps = 2500, !.clear_balance = TRUE],
    [PlainRequest EXCEPT !.fee_bps = 10000],
    [PlainRequest EXCEPT !.fee_ok = FALSE, !.fee_bps = DEFAULT_FEE_BPS],
    [PlainRequest EXCEPT !.amount = "invalid"],
    [PlainRequest EXCEPT !.min = "ok", !.min_cents = 2, !.max = "ok", !.max_cents = 1],
    [PlainRequest EXCEPT !.min = "ok", !.min_cents = 5] }

\* the refundMoney of a legacy request, in cents; 0 = absent
LegacyMoneys == {0, 1, 2}

Init ==
  /\ EstimateOff
  /\ PublicOff
  /\ algoOrders = << >>
  /\ algoUsed = 0
  /\ algoResult = << >>
  /\ \E h \in Histories :
       /\ user = h.user
       /\ top_ups = h.top_ups
       /\ charges = h.charges
       /\ quota0 = h.user.quota
  /\ refunds = << >>
  /\ extRefunds = << >>
  /\ now = 0
  /\ batch = [b \in BatchIds |-> IdleBatch]
  /\ legacy = [r \in LegacyIds |-> IdleLegacy]

Next ==
  \/ \E b \in BatchIds : \E req \in Requests : BatchGetUser(b, req)
  \/ \E b \in BatchIds : BatchListRefunds(b)
  \/ \E b \in BatchIds : BatchListCharges(b)
  \/ \E b \in BatchIds : BatchReserve(b)
  \/ \E b \in BatchIds : BatchInsert(b)
  \/ \E b \in BatchIds : BatchCall(b)
  \/ \E b \in BatchIds : BatchMarkSucceeded(b)
  \/ \E b \in BatchIds : BatchMarkTopup(b)
  \/ \E b \in BatchIds : BatchRelease(b)
  \/ \E b \in BatchIds : BatchMarkFailed(b)
  \/ \E b \in BatchIds : BatchYListTopups(b)
  \/ \E b \in BatchIds : BatchYListRefunds(b)
  \/ \E r \in LegacyIds : \E i \in 1..Len(top_ups) : \E m \in LegacyMoneys :
       LegacySelect(r, top_ups[i].trade_no, m)
  \/ \E r \in LegacyIds : LegacyInsert(r)
  \/ \E r \in LegacyIds : LegacyCall(r)
  \/ \E r \in LegacyIds : LegacyUpdateCharge(r)
  \/ \E r \in LegacyIds : LegacyUpdateRow(r)
  \/ \E r \in LegacyIds : LegacyCommit(r)
  \/ \E r \in LegacyIds : LegacyMarkSucceeded(r)
  \/ \E r \in LegacyIds : LegacyMarkFailed(r)
  \/ Tick

Spec == Init /\ [][Next]_vars

(***************************************************************************)
(* SpecAlgo: computeRefundDueV2 applied to bounded inputs.                 *)
(***************************************************************************)
AlgoIds == << "o1", "o2", "o3", "o4" >>

AlgoOrderValues(id) ==
  [ id : {id},
    paid_cents : 0..MaxPaidCents,
    grant_quota : {k * HalfCentQuota : k \in 0..MaxGrantUnits},
    created_at : 1..MaxCreated ]

AlgoInputs ==
  UNION { { s \in [1..n -> UNION {AlgoOrderValues(AlgoIds[i]) : i \in 1..n}] :
              \A i \in 1..n : s[i].id = AlgoIds[i] } :
          n \in 1..Min(MaxOrders, Len(AlgoIds)) }

InitAlgo ==
  /\ EstimateOff
  /\ PublicOff
  /\ algoOrders \in AlgoInputs
  /\ algoUsed \in {k * HalfCentQuota : k \in 0..MaxUsedUnits}
  /\ algoResult = << >>
  /\ EngineOff

AlgoCompute ==
  /\ algoResult = << >>
  /\ algoResult' = << computeRefundDueV2(algoOrders, algoUsed) >>
  /\ UNCHANGED << algoOrders, algoUsed, user, top_ups, charges, refunds,
                  extRefunds, now, batch, legacy, quota0, estVars, pubVars >>

NextAlgo == AlgoCompute

SpecAlgo == InitAlgo /\ [][NextAlgo]_vars

(***************************************************************************)
(* Claims about computeRefundDueV2 (SpecAlgo).                             *)
(***************************************************************************)
\* sum of grant_quota over the orders
AlgoTotalGrant == SeqSum([i \in 1..Len(algoOrders) |-> algoOrders[i].grant_quota])

\* the allocations u of the claim: 0 <= u_i <= g_i, sum u_i = min(U, sum g_i),
\* on the grid of the inputs
AlgoAllocations ==
  { u \in [1..Len(algoOrders) -> {k * HalfCentQuota : k \in 0..MaxGrantUnits}] :
      /\ \A i \in 1..Len(algoOrders) : u[i] <= algoOrders[i].grant_quota
      /\ SeqSum(u) = Min(algoUsed, AlgoTotalGrant) }

\* F of an allocation: sum of max(0, p_quota_i - u_i)
AlgoRefundableOf(u) ==
  SeqSum([i \in 1..Len(algoOrders) |->
            Max(0, centsToQuota(algoOrders[i].paid_cents) - u[i])])

AlgoSomeAllocationIsLower ==
  \E u \in AlgoAllocations : AlgoRefundableOf(u) < algoResult[1].due_quota

AccountingRows == listRefundsForUserAccounting(refunds)

\* the sum of quota_delta over the pending and succeeded rows
AccountedQuotaDelta == SumMap(AccountingRows, LAMBDA r : r.quota_delta)

\* the batch has fetched its quote
Quoted(s) == s.pc \notin {"idle", "listRefunds", "listCharges"}

\* C1 (as stated): in every reachable state the quota_delta of the pending and
\* succeeded rows sum to at most the quota the user held before any refund;
\* the bound taken here is the larger one, that quota plus used_quota.
C1_DeltaSumWithinOriginalQuota ==
  AccountedQuotaDelta <= quota0 + user.used_quota

\* C2 (as stated): in every reachable state, for every aggregator top-up, the
\* refund_money_minor of its pending and succeeded rows sum to at most the
\* cents paid for it.
C2_MoneySumWithinTopup ==
  \A i \in 1..Len(top_ups) :
    IsYipayMethod(top_ups[i].payment_method) =>
      RefundedCentsByTopup(AccountingRows, top_ups[i].trade_no)
        <= top_ups[i].money_cents

\* C5 (as stated): in every reachable state the quota_delta of every pending or
\* succeeded row has been subtracted from users.quota, and failed rows have no
\* net effect: users.quota is at most the original quota minus those deltas.
C5_AccountedDeltaIsSubtracted ==
  user.quota + AccountedQuotaDelta <= quota0

\* C4: the providers never hold two refunds under one key, and every refund
\* they hold was issued under the out_refund_no of a row of the same provider
\* and target, so the calls made for one out_refund_no produce at most one
\* external refund.
C4_OneRefundPerOutRefundNo ==
  /\ \A i, j \in 1..Len(extRefunds) :
       (extRefunds[i].provider = extRefunds[j].provider
          /\ extRefunds[i].key = extRefunds[j].key) => i = j
  /\ \A i \in 1..Len(extRefunds) :
       \E k \in 1..Len(refunds) :
         /\ refunds[k].out_refund_no = extRefunds[i].key
         /\ refunds[k].provider = extRefunds[i].provider
         /\ extRefunds[i].target \in {refunds[k].topup_trade_no,
                                      refunds[k].stripe_charge_id}

\* two requests called the provider with one out_refund_no, both calls
\* returned, and the provider holds one refund for it
C4_Witness ==
  \E b, c \in BatchIds :
    /\ b # c
    /\ Len(batch[b].operations) > 0
    /\ Len(batch[c].operations) > 0
    /\ LET k == refunds[batch[b].operations[1].id].out_refund_no
       IN  /\ refunds[batch[c].operations[1].id].out_refund_no = k
           /\ Cardinality({i \in 1..Len(extRefunds) : extRefunds[i].key = k}) = 1

OpsAmount(s) == SumMap(s.operations, LAMBDA o : o.amountCents)

OpsQuotaDelta(s) == SumMap(s.operations, LAMBDA o : o.deltaQuota)

\* the execution of the batch has begun (the derivation passed, no dry run)
Executing(s) ==
  /\ Quoted(s)
  /\ s.quote.error = ""
  /\ deriveRefund(s.quote, s.req).error = ""
  /\ ~deriveRefund(s.quote, s.req).dry_run

\* C6: within a batch, remaining_cents is net_cents minus the amounts of the
\* settled legs and remaining_quota_delta is target_quota_delta minus their
\* deltas (each settled leg lowers them by exactly its amount and its delta),
\* neither is negative, and both are 0 when the batch returns success.
C6_RemainingFollowSettledLegs ==
  \A b \in BatchIds :
    LET s == batch[b]
    IN  Executing(s) =>
          /\ s.remainingCents = s.netCents - OpsAmount(s)
          /\ s.remainingQuotaDelta = s.targetQuotaDelta - OpsQuotaDelta(s)
          /\ s.remainingCents >= 0
          /\ s.remainingQuotaDelta >= 0
          /\ (s.result = "ok" =>
                /\ s.remainingCents = 0
                /\ s.remainingQuotaDelta = 0
                /\ OpsAmount(s) = s.netCents
                /\ OpsQuotaDelta(s) = s.targetQuotaDelta)

\* a batch of two legs returned success with a target_quota_delta that is not
\* the quota of its cents
C6_Witness ==
  \E b \in BatchIds :
    /\ batch[b].result = "ok"
    /\ Len(batch[b].operations) = 2
    /\ batch[b].targetQuotaDelta # centsToQuota(batch[b].netCents)

DerivationErrors ==
  { "invalid_amount", "invalid_fee_percent", "nothing_to_refund", "fee_too_high",
    "invalid_min_refund_amount", "invalid_max_refund_amount",
    "invalid_refund_amount_range", "refund_amount_out_of_range" }

\* the request is a dry run or was rejected during derivation
NoEffectRequest(s) ==
  /\ s.pc # "idle"
  /\ \/ s.req.dry_run
     \/ s.result \in DerivationErrors

\* C7: a request with dry_run = true, and a request rejected during derivation,
\* writes nothing and calls no provider; when it is the only request received,
\* users.quota, every top-up status, the refund rows and the providers'
\* refunds are what they were.
C7_DryRunAndRejectionsHaveNoEffect ==
  \A b \in BatchIds :
    LET s == batch[b]
    IN  NoEffectRequest(s) =>
          /\ ~s.touched
          /\ s.calls = 0
          /\ s.reservedNet = 0
          /\ s.pc \in {"listRefunds", "listCharges", "done"}
          /\ (Received = 1 =>
                /\ user.quota = quota0
                /\ refunds = << >>
                /\ extRefunds = << >>
                /\ \A i \in 1..Len(top_ups) : top_ups[i].status = "success")

\* a dry run answered with an amount to refund, next to a request that refunded
C7_Witness ==
  \E b, c \in BatchIds :
    /\ batch[b].result = "dry_run"
    /\ batch[b].netCents > 0
    /\ batch[c].result = "ok"

\* the provider call of the current leg of a finished batch failed
ProviderFailed(s) ==
  /\ s.pc = "done"
  /\ s.result = "refund_failed"
  /\ s.leg.logId # 0
  /\ ~s.leg.providerSucceeded

MaxQuoteQuotaCents == 6
MaxQuoteUsedCents == 8

LedgerRow(provider, target, cents, deltaQuota, status) ==
  [ provider |-> provider,
    topup_trade_no |-> IF provider = "yipay" THEN target ELSE "",
    stripe_charge_id |-> IF provider = "stripe" THEN target ELSE "",
    refund_money_minor |-> cents, quota_delta |-> deltaQuota,
    out_refund_no |-> << >>, status |-> status, error_message |-> "" ]

\* ledgers with the amount_refunded of the charge that goes with them: none;
\* one settled aggregator leg; one settled card leg; one failed leg; a top-up
\* refunded in full (with part of its grant left when it granted more); and the
\* ledger two racing batches leave on one top-up (both rows inserted before
\* either provider call)
QuoteLedgers ==
  { [ refunds |-> << >>, charge_refunded |-> 0 ],
    [ refunds |-> << LedgerRow("yipay", "t1", 1, QUOTA_PER_CENT, "succeeded") >>,
      charge_refunded |-> 0 ],
    [ refunds |-> << LedgerRow("stripe", "c1", 1, QUOTA_PER_CENT, "succeeded") >>,
      charge_refunded |-> 1 ],
    [ refunds |-> << LedgerRow("yipay", "t1", 2, 2 * QUOTA_PER_CENT, "failed") >>,
      charge_refunded |-> 0 ],
    [ refunds |-> << LedgerRow("yipay", "t1", 2, 2 * QUOTA_PER_CENT, "succeeded") >>,
      charge_refunded |-> 0 ],
    [ refunds |-> << LedgerRow("yipay", "t1", 2, 2 * QUOTA_PER_CENT, "succeeded"),
                     LedgerRow("yipay", "t1", 2, 2 * QUOTA_PER_CENT, "pending") >>,
      charge_refunded |-> 0 ] }

\* the amount column (grant, in cents of quota) of top-up t1: absent, below,
\* and above what was paid for it
QuoteGrantCents == {0, 1, 4}

InitQuote ==
  /\ EstimateOff
  /\ PublicOff
  /\ algoOrders = << >>
  /\ algoUsed = 0
  /\ algoResult = << >>
  /\ \E q \in 0..MaxQuoteQuotaCents, u \in 0..MaxQuoteUsedCents, c \in {"", "cus"} :
       /\ user = [ quota |-> q * QUOTA_PER_CENT, used_quota |-> u * QUOTA_PER_CENT,
                   stripe_customer |-> c ]
       /\ quota0 = q * QUOTA_PER_CENT
  /\ \E g \in QuoteGrantCents :
       top_ups = << Topup("c1", "stripe", 2, 2, 1), Topup("t1", "alipay", 2, g, 2),
                    Topup("t2", "wxpay", 2, 2, 3) >>
  /\ \E l \in QuoteLedgers :
       /\ refunds = l.refunds
       /\ charges = << [Charge("c1", 2, 1) EXCEPT !.amount_refunded = l.charge_refunded] >>
  /\ extRefunds = << >>
  /\ now = 0
  /\ batch = [b \in BatchIds |-> IdleBatch]
  /\ legacy = [r \in LegacyIds |-> IdleLegacy]

NextQuote ==
  \/ BatchGetUser(1, [PlainRequest EXCEPT !.dry_run = TRUE])
  \/ BatchListRefunds(1)
  \/ BatchListCharges(1)

SpecQuote == InitQuote /\ [][NextQuote]_vars

\* C8: every quote has 0 <= due_cents <= total_net_paid_cents, the card net
\* paid plus the aggregator net paid.
C8_DueWithinNetPaid ==
  \A b \in BatchIds :
    LET s == batch[b]
    IN  Quoted(s) =>
          /\ s.quote.totalNetPaidCents
               = s.quote.stripeNetPaidCents + s.quote.yipayNetPaidCents
          /\ 0 <= s.quote.dueCents
          /\ s.quote.dueCents <= s.quote.totalNetPaidCents

\* a quote whose algorithm result was above the net paid amount
C8_Witness ==
  \E b \in BatchIds :
    /\ Quoted(batch[b])
    /\ batch[b].quote.due_cents_unclamped > batch[b].quote.totalNetPaidCents
    /\ batch[b].quote.dueCents = batch[b].quote.totalNetPaidCents
    /\ batch[b].quote.totalNetPaidCents > 0

(***************************************************************************)
(* Claims on the quote, the plan and the outcome of a request              *)
(***************************************************************************)
\* what the user paid: every aggregator top-up, and every charge of the card
\* customer with what is left on it
PaidCentsOfAllOrders ==
  sumYipayPaidCents(top_ups)
    + ( IF user.stripe_customer = "" THEN 0
        ELSE SeqSum([i \in 1..Len(charges) |->
               IF charges[i].paid /\ charges[i].status = "succeeded"
               THEN charges[i].amount ELSE 0]) )

NoPriorRefunds ==
  /\ refunds = << >>
  /\ \A i \in 1..Len(charges) : charges[i].amount_refunded = 0

\* C11: with used_quota = 0 and no earlier refund of the user, the quote's
\* due_cents is the sum of paid_cents over all the user's orders, whatever the
\* orders were granted
C11_NoUseNoRefundsDueIsPaid ==
  \A b \in BatchIds :
    ( /\ Quoted(batch[b])
      /\ batch[b].quote.error = ""
      /\ batch[b].userRow.used_quota = 0
      /\ NoPriorRefunds )
    => batch[b].quote.dueCents = PaidCentsOfAllOrders

\* C11 witness: such a quote with money due, for a user with a card charge and a
\* top-up that granted less than was paid for it
C11_Witness ==
  \E b \in BatchIds :
    /\ Quoted(batch[b])
    /\ batch[b].quote.error = ""
    /\ batch[b].userRow.used_quota = 0
    /\ NoPriorRefunds
    /\ user.stripe_customer # ""
    /\ \E i \in 1..Len(top_ups) :
         /\ top_ups[i].amount_cents > 0
         /\ top_ups[i].amount_cents < top_ups[i].money_cents
    /\ batch[b].quote.dueCents = 6

\* the real orders of a quote, and the result of the algorithm for them when
\* nothing was consumed
RealOrders(q) == SelectSeq(q.orders_sorted, LAMBDA o : o.id # "gift_pool")

NoConsumption(q) == computeRefundDueV2(RealOrders(q), 0)

RefundableOf(res, id) ==
  SeqSum([i \in 1..Len(res.orders_sorted) |->
            IF res.orders_sorted[i].id = id
            THEN res.orders_sorted[i].refundable_quota ELSE 0])

\* C12: when the synthetic gift-pool order is granted at least used_quota,
\* every real order's refundable quota is the one that order has with
\* used_quota = 0, the due_cents of the algorithm is the one of the
\* no-consumption case, and the synthetic order has no refundable quota
C12_GiftPoolAbsorbsConsumption ==
  \A b \in BatchIds :
    ( /\ Quoted(batch[b])
      /\ batch[b].quote.error = ""
      /\ batch[b].quote.gift_pool_quota >= batch[b].quote.usedQuota )
    => LET q == batch[b].quote
       IN  /\ \A i \in 1..Len(q.orders_sorted) :
                q.orders_sorted[i].refundable_quota =
                  IF q.orders_sorted[i].id = "gift_pool" THEN 0
                  ELSE RefundableOf(NoConsumption(q), q.orders_sorted[i].id)
           /\ q.due_cents_unclamped = NoConsumption(q).due_cents

\* C12 witness: a quote whose gift-pool order took consumption, with real
\* orders that have paid money left and a positive amount due
C12_Witness ==
  \E b \in BatchIds :
    /\ Quoted(batch[b])
    /\ batch[b].quote.error = ""
    /\ batch[b].quote.usedQuota > 0
    /\ batch[b].quote.gift_pool_quota >= batch[b].quote.usedQuota
    /\ batch[b].quote.dueCents > 0
    /\ \E i \in 1..Len(batch[b].quote.orders_sorted) :
         /\ batch[b].quote.orders_sorted[i].id = "gift_pool"
         /\ batch[b].quote.orders_sorted[i].used_alloc_quota = batch[b].quote.usedQuota
    /\ \E i \in 1..Len(batch[b].quote.orders_sorted) :
         /\ batch[b].quote.orders_sorted[i].id # "gift_pool"
         /\ batch[b].quote.orders_sorted[i].grant_quota > 0
         /\ batch[b].quote.orders_sorted[i].paid_quota > 0

\* C12 witness of the tie: a real order with nothing paid left and a larger
\* grant sorts before the gift-pool order and takes part of the consumption
C12_WitnessTie ==
  \E b \in BatchIds :
    /\ Quoted(batch[b])
    /\ batch[b].quote.error = ""
    /\ batch[b].quote.gift_pool_quota >= batch[b].quote.usedQuota
    /\ Len(batch[b].quote.orders_sorted) >= 2
    /\ batch[b].quote.orders_sorted[1].id # "gift_pool"
    /\ batch[b].quote.orders_sorted[1].used_alloc_quota > 0
    /\ batch[b].quote.orders_sorted[2].id = "gift_pool"

\* the permutations of the input list of computeRefundDueV2
AlgoPermutations ==
  { p \in [1..Len(algoOrders) -> 1..Len(algoOrders)] :
      \A i, j \in 1..Len(algoOrders) : p[i] = p[j] => i = j }

AlgoPermuted(p) == [i \in 1..Len(algoOrders) |-> algoOrders[p[i]]]

AlgoNormalized == { normalizeOrder(algoOrders[i]) : i \in 1..Len(algoOrders) }

\* the comparator of the sort is a strict total order on orders of distinct ids
AlgoComparatorIsStrictTotalOrder ==
  /\ \A a, b \in AlgoNormalized :
       /\ compareOrders(a, b) = 0 - compareOrders(b, a)
       /\ (compareOrders(a, b) = 0) <=> (a.id = b.id)
  /\ \A a, b, c \in AlgoNormalized :
       (compareOrders(a, b) < 0 /\ compareOrders(b, c) < 0) => compareOrders(a, c) < 0

\* C13: for orders of pairwise distinct ids, every permutation of the input
\* list gives the same result of computeRefundDueV2 (the same orders_sorted with
\* the same used_alloc_quota and refundable_quota, the same due_cents), and the
\* comparator is a strict total order
C13_QuoteIndependentOfInputOrder ==
  algoResult # << >> =>
    /\ AlgoComparatorIsStrictTotalOrder
    /\ \A p \in AlgoPermutations :
         computeRefundDueV2(AlgoPermuted(p), algoUsed) = algoResult[1]

\* C13 witness: three orders, two of which differ by their id only, sorted in
\* another order than they were given, with part of the consumption allocated
C13_Witness ==
  /\ algoResult # << >>
  /\ Len(algoOrders) = 3
  /\ algoOrders[1].paid_cents = algoOrders[3].paid_cents
  /\ algoOrders[1].grant_quota = algoOrders[3].grant_quota
  /\ algoOrders[1].created_at = algoOrders[3].created_at
  /\ algoResult[1].orders_sorted[1].id = "o2"
  /\ algoResult[1].orders_sorted[2].id = "o1"
  /\ algoResult[1].orders_sorted[2].used_alloc_quota > 0
  /\ algoResult[1].orders_sorted[3].used_alloc_quota = 0
  /\ algoResult[1].due_cents > 0

\* C14: the plan of every quote has card part min(due_cents, card net paid)
\* and aggregator part due_cents minus the card part; the two parts are not
\* negative, sum to due_cents, and neither is above the net paid amount of its
\* own channel
C14_PlanSplitsDueByChannel ==
  \A b \in BatchIds :
    (Quoted(batch[b]) /\ batch[b].quote.error = "")
    => LET q == batch[b].quote
       IN  /\ q.plan.stripeCents = Min(q.dueCents, q.stripeNetPaidCents)
           /\ q.plan.yipayCents = q.dueCents - q.plan.stripeCents
           /\ q.plan.stripeCents >= 0
           /\ q.plan.yipayCents >= 0
           /\ q.plan.stripeCents + q.plan.yipayCents = q.dueCents
           /\ q.plan.stripeCents <= q.stripeNetPaidCents
           /\ q.plan.yipayCents <= q.yipayNetPaidCents

\* C14 witness: a quote whose amount due is above what the card channel has
\* left, so that both parts of the plan are positive
C14_Witness ==
  \E b \in BatchIds :
    /\ Quoted(batch[b])
    /\ batch[b].quote.error = ""
    /\ batch[b].quote.dueCents > batch[b].quote.stripeNetPaidCents
    /\ batch[b].quote.plan.stripeCents > 0
    /\ batch[b].quote.plan.yipayCents > 0
    /\ batch[b].quote.plan.yipayCents < batch[b].quote.yipayNetPaidCents

\* some request other than batch b has written users.quota
OtherQuotaWriter(b) ==
  \/ \E c \in BatchIds \ {b} : batch[c].touched
  \/ \E r \in LegacyIds : legacy[r].pc = "markSucceeded" \/ legacy[r].result = "ok"

\* C15: when a batch with clear_balance ends with the ok response and no other
\* request wrote the user's quota, the quota deltas of its legs sum to the
\* quota the quote read and users.quota is 0
C15_ClearBalanceEmptiesQuota ==
  \A b \in BatchIds :
    ( /\ batch[b].result = "ok"
      /\ batch[b].req.clear_balance
      /\ ~OtherQuotaWriter(b) )
    => /\ OpsQuotaDelta(batch[b]) = batch[b].quote.quota
       /\ user.quota = 0

\* C15 witness: such a batch with a fee, two legs, and a quota snapshot that is
\* not the quota of the refunded cents
C15_Witness ==
  \E b \in BatchIds :
    /\ batch[b].result = "ok"
    /\ batch[b].req.clear_balance
    /\ ~OtherQuotaWriter(b)
    /\ batch[b].feeCents > 0
    /\ Len(batch[b].operations) = 2
    /\ batch[b].quote.quota > 0
    /\ batch[b].quote.quota # centsToQuota(batch[b].grossCents)
    /\ user.quota = 0

\* C16: a batch that went through both loops with remaining_cents > 0 answers
\* refund_incomplete (and only then); its operations list holds every leg whose
\* provider call was made, the refunded amount is net_cents - remaining_cents =
\* the sum of those legs, and each listed leg keeps its external refund, its
\* quota decrement and its row (succeeded, or pending when the update failed)
C16_IncompleteKeepsSucceededLegs ==
  \A b \in BatchIds :
    LET s == batch[b]
    IN  /\ (s.pc = "done" /\ Executing(s) /\ s.result # "refund_failed")
             => (s.remainingCents > 0 <=> s.result = "refund_incomplete")
        /\ s.result = "refund_incomplete"
             => /\ s.remainingCents > 0
                /\ OpsAmount(s) = s.netCents - s.remainingCents
                /\ Len(s.operations) = s.calls
                /\ s.reservedNet = OpsQuotaDelta(s)
                /\ \A i \in 1..Len(s.operations) :
                     LET op == s.operations[i]
                         row == refunds[op.id]
                     IN  /\ row.refund_money_minor = op.amountCents
                         /\ row.quota_delta = op.deltaQuota
                         /\ row.status = IF op.warning = "" THEN "succeeded" ELSE "pending"
                         /\ ExtIssued(op.provider, row.out_refund_no)

\* C16 witness: refund_incomplete after a leg that succeeded
C16_Witness ==
  \E b \in BatchIds :
    /\ batch[b].result = "refund_incomplete"
    /\ Len(batch[b].operations) >= 1
    /\ batch[b].operations[1].deltaQuota > 0
    /\ batch[b].operations[1].warning = ""
    /\ batch[b].remainingCents > 0

\* what was paid for a top-up: money for the aggregator, the charge for the card
TopupPaidCents(t) ==
  IF IsYipayMethod(t.payment_method) THEN t.money_cents
  ELSE SumMap(charges, LAMBDA c : IF c.id = t.trade_no THEN c.amount ELSE 0)

\* what has been refunded of a top-up: the larger of what the providers hold
\* and what the pending and succeeded rows of the audit store say
TopupRefundedCents(t) ==
  IF IsYipayMethod(t.payment_method)
    THEN Max( SumMap(extRefunds, LAMBDA e :
                IF e.provider = "yipay" /\ e.target = t.trade_no THEN e.amount ELSE 0),
              RefundedCentsByTopup(AccountingRows, t.trade_no) )
    ELSE SumMap(charges, LAMBDA c : IF c.id = t.trade_no THEN c.amount_refunded ELSE 0)

\* C17 (as stated): whenever the status of a top-up changes, it changes from
\* success to refund, and the refunded amount of that top-up has reached what
\* was paid for it
C17_RefundStatusOnlyWhenFullyRefunded ==
  [][ \A i \in 1..Len(top_ups) :
        top_ups'[i].status # top_ups[i].status =>
          /\ top_ups[i].status = "success"
          /\ top_ups'[i].status = "refund"
          /\ TopupRefundedCents(top_ups[i]) >= TopupPaidCents(top_ups[i]) ]_vars

\* the part of C17 that holds: a status changes from success to refund only
C17_StatusNeverBack ==
  [][ \A i \in 1..Len(top_ups) :
        top_ups'[i].status # top_ups[i].status =>
          /\ top_ups[i].status = "success"
          /\ top_ups'[i].status = "refund" ]_vars

(***************************************************************************)
(* routes/refundEstimate.ts: computeRefundEstimate, startEstimateJob and   *)
(* the routes GET / and POST /recompute.                                   *)
(***************************************************************************)
\* Array.from(new Set(...)): the first occurrence of each element, in order
RECURSIVE Dedupe(_)
Dedupe(s) ==
  IF s = << >> THEN << >>
  ELSE LET r == Dedupe(SubSeq(s, 1, Len(s) - 1))
       IN  IF \E i \in 1..Len(r) : r[i] = s[Len(s)] THEN r ELSE Append(r, s[Len(s)])

\* the card customers of the users
estimateStripeCustomers(users) ==
  Dedupe(SelectSeq([i \in 1..Len(users) |-> users[i].stripe_customer],
                   LAMBDA c : c # ""))

\* a Map: a function on the keys that were set
MapGet(map, key, default) == IF key \in DOMAIN map THEN map[key] ELSE default

MapSet(map, key, value) ==
  [k \in DOMAIN map \cup {key} |-> IF k = key THEN value ELSE map[k]]

\* the body of the try block for one customer, given the charges listed
estimateCustomerCharges(chargeList) ==
  LET kept == SelectSeq(chargeList, LAMBDA c : c.paid /\ c.status = "succeeded")
      currency == IF kept = << >> THEN "" ELSE kept[1].currency
      items == [i \in 1..Len(kept) |-> stripeChargeRow(kept[i])]
  IN  [ kind |-> IF \E i \in 1..Len(kept) : kept[i].currency # currency THEN "multi"
                 ELSE IF currency # "" /\ currency # "cny" THEN "non_cny"
                 ELSE "ok",
        net |-> SumMap(items, LAMBDA c : c.remaining_cents),
        items |-> items ]

\* step 5 for one user: due and plan
estimateUser(u, job, rows) ==
  LET customerId == u.stripe_customer
      stripeNet == IF customerId = "" THEN 0
                   ELSE MapGet(job.stripeNetPaidByCustomerCny, customerId, 0)
      stripeCharges == IF customerId = "" THEN << >>
                       ELSE MapGet(job.stripeChargesByCustomerCny, customerId, << >>)
      yipayTopups == listUserYipayTopupsForAlgo(u.top_ups)
      yipayOrders == [i \in 1..Len(yipayTopups) |-> yipayAlgoOrder(yipayTopups[i], rows)]
      yipayNet == SumMap(yipayOrders, LAMBDA o : o.paid_cents)
      orders == SelectSeq(
                  yipayOrders \o [i \in 1..Len(stripeCharges) |->
                                    stripeAlgoOrder(stripeCharges[i], u.top_ups, rows)],
                  LAMBDA o : o.paid_cents > 0 \/ o.grant_quota > 0)
      totalNetPaid == stripeNet + yipayNet
      pool == withSyntheticGiftPoolOrder(orders, u.quota + u.used_quota)
      algo == computeRefundDueV2(pool.orders, u.used_quota)
      due == clampDue(algo.due_cents, totalNetPaid)
      stripePart == stripePlanCents(due, stripeNet)
  IN  [ totalNetPaid |-> totalNetPaid, due |-> due, stripePart |-> stripePart,
        yipayPart |-> due - stripePart ]

\* the value computeRefundEstimate returns; computedAt stands for nowIso()
estimateResult(job, computedAt) ==
  LET rows == listRefundsForUserAccounting(estEnv.refunds)
      per == [i \in 1..Len(job.users) |-> estimateUser(job.users[i], job, rows)]
  IN  [ computed_at |-> computedAt,
        totals |->
          [ total_cents |-> SumMap(per, LAMBDA p : p.due),
            stripe_cents |-> SumMap(per, LAMBDA p : p.stripePart),
            yipay_cents |-> SumMap(per, LAMBDA p : p.yipayPart) ],
        counts |->
          [ users_total |-> Len(job.users),
            paying_users |-> Len(SelectSeq(per, LAMBDA p : p.totalNetPaid > 0)),
            refundable_users |-> Len(SelectSeq(per, LAMBDA p : p.due > 0)),
            users_with_stripe_customer |->
              Len(SelectSeq(job.users, LAMBDA u : u.stripe_customer # "")),
            stripe_customers_total |-> Len(job.stripeCustomers),
            stripe_customers_processed |->
              IF estEnv.stripeClient THEN Len(job.stripeCustomers) ELSE 0,
            stripe_customers_failed |-> job.stripeCustomersFailed,
            stripe_customers_multi_currency |-> job.stripeCustomersMultiCurrency,
            stripe_customers_non_cny |-> job.stripeCustomersNonCny ] ]

\* state.progress of a job that has just been started
StartProgress ==
  [ phase |-> "loading", users_total |-> 0, stripe_customers_total |-> 0,
    stripe_customers_done |-> 0, stripe_customers_failed |-> 0,
    stripe_customers_multi_currency |-> 0, stripe_customers_non_cny |-> 0 ]

\* if (state.status === 'running' && state.progress) { ...update... }
withProgress(st, Update(_)) ==
  IF st.status = "running" /\ st.progress # << >>
    THEN [st EXCEPT !.progress = << Update(st.progress[1]) >>]
    ELSE st

\* mutant of startBlocked: a start request is never refused
startBlocked_Never(st) == FALSE

\* if (state.status === 'running') return;
startBlocked(st) == st.status = "running"

\* mutant of lastResultOf: only the result of a ready state is carried over
lastResultOf_ResultOnly(st) == st.result

\* const last = state.result ?? state.last_result
lastResultOf(st) == IF st.result # << >> THEN st.result ELSE st.last_result

\* the runs launched so far
EstLaunched == Cardinality({j \in EstJobIds : estJobs[j].pc # "idle"})

\* the runs in flight
EstInFlight == {j \in EstJobIds : estJobs[j].pc \notin {"idle", "done"}}

\* startEstimateJob, up to the first await of computeRefundEstimate
startEstimateJob ==
  /\ estHist.starts < MaxStartRequests
  /\ IF startBlocked(state)
       THEN /\ UNCHANGED << state, estJobs >>
            /\ estHist' = [estHist EXCEPT !.starts = @ + 1, !.ignored = @ + 1]
       ELSE LET j == EstLaunched + 1
                last == lastResultOf(state)
            IN  /\ j \in EstJobIds
                /\ state' = [ status |-> "running", started_at |-> << estHist.starts + 1 >>,
                              progress |-> << StartProgress >>, result |-> << >>,
                              last_result |-> last, error |-> "" ]
                /\ estJobs' = [estJobs EXCEPT
                                 ![j] = [IdleJob EXCEPT !.pc = "loadUsers", !.last = last]]
                /\ estHist' = [estHist EXCEPT !.starts = @ + 1]
  /\ UNCHANGED << algoVars, pubVars, dbVars, now, batch, legacy, quota0, estEnv >>

\* POST /recompute
EstRecompute == startEstimateJob

\* GET /?autostart=1
EstGetAutostart == startEstimateJob

\* mutant of EstJobThrows: the catch leaves the state as it is
EstJobThrows_StaysRunning(j, job, message) ==
  /\ UNCHANGED state
  /\ estJobs' = [estJobs EXCEPT ![j] = [job EXCEPT !.pc = "done", !.outcome = "error"]]
  /\ estHist' = [estHist EXCEPT !.completed = @ + 1]

\* the catch of the job: state = { status: 'error', error, last_result: last }
EstJobThrows(j, job, message) ==
  /\ state' = [ status |-> "error", started_at |-> << >>, progress |-> << >>,
                result |-> << >>, last_result |-> job.last, error |-> message ]
  /\ estJobs' = [estJobs EXCEPT ![j] = [job EXCEPT !.pc = "done", !.outcome = "error"]]
  /\ estHist' = [estHist EXCEPT !.completed = @ + 1]

\* phase finalizing, the result, and state = { status: 'ready', ... }: all in the
\* turn of the event loop in which the last await of the run resolved
EstJobReturns(j, job) ==
  LET result == estimateResult(job, estHist.completed + 1)
  IN  /\ state' = [ status |-> "ready", started_at |-> << >>, progress |-> << >>,
                    result |-> << result >>, last_result |-> << result >>, error |-> "" ]
      /\ estJobs' = [estJobs EXCEPT ![j] = [job EXCEPT !.pc = "done",
                                                      !.outcome = "ready"]]
      /\ estHist' = [estHist EXCEPT !.completed = @ + 1, !.lastOk = << result >>]

\* 1) select ... from users resolves or throws
EstLoadUsers(j) ==
  LET job == estJobs[j]
      loaded == [job EXCEPT !.users = estEnv.users, !.pc = "loadRest"]
  IN  /\ job.pc = "loadUsers"
      /\ \/ /\ state' = withProgress(state, LAMBDA p :
                          [p EXCEPT !.phase = "loading",
                                    !.users_total = Len(estEnv.users)])
            /\ estJobs' = [estJobs EXCEPT ![j] = loaded]
            /\ UNCHANGED estHist
         \/ EstJobThrows(j, job, "mysql_error")
      /\ UNCHANGED << algoVars, pubVars, dbVars, now, batch, legacy, quota0, estEnv >>

\* asyncPool(5, stripeCustomers, ...)
POOL_CONCURRENCY == 5

PoolWorkers(concurrency) == 0..((IF concurrency > 1 THEN concurrency ELSE 1) - 1)

\* mutant of poolNextIndex: a worker goes on with the next item
poolNextIndex_Successor(index, concurrency) == index + 1

\* index += concurrency
poolNextIndex(index, concurrency) == index + concurrency

\* the workers whose index is within the items, in the order of the workers
RECURSIVE poolFirstItems(_, _, _)
poolFirstItems(items, concurrency, workerIndex) ==
  IF workerIndex \notin PoolWorkers(concurrency) THEN << >>
  ELSE (IF workerIndex < Len(items) THEN << items[workerIndex + 1] >> ELSE << >>)
         \o poolFirstItems(items, concurrency, workerIndex + 1)

\* asyncPool up to its await: every worker begins with index = workerIndex and
\* calls the iterator on its first item
poolStart(job, concurrency) ==
  LET first == poolFirstItems(job.stripeCustomers, concurrency, 0)
  IN  [job EXCEPT !.pc = "card",
                  !.poolIndex = [w \in PoolWorkers(concurrency) |-> w],
                  !.listing = { first[i] : i \in 1..Len(first) },
                  !.listCalls = first]

\* the worker whose iterator awaits the listing of customerId
poolWorkerOf(job, customerId) ==
  CHOOSE w \in DOMAIN job.poolIndex :
    /\ job.poolIndex[w] < Len(job.stripeCustomers)
    /\ job.stripeCustomers[job.poolIndex[w] + 1] = customerId

\* the iterator of customerId returned: its worker goes on with its next item
\* when it has one
poolAdvance(job, customerId, concurrency) ==
  LET w == poolWorkerOf(job, customerId)
      index == poolNextIndex(job.poolIndex[w], concurrency)
      more == index < Len(job.stripeCustomers)
  IN  [job EXCEPT !.poolIndex[w] = index,
                  !.listing = (@ \ {customerId})
                                \cup (IF more THEN {job.stripeCustomers[index + 1]} ELSE {}),
                  !.listCalls = IF more THEN Append(@, job.stripeCustomers[index + 1])
                                ELSE @]

\* 2) and 3) the top_ups queries and the pages of refunds resolve, or one
\* throws; then the card phase begins, or the run ends when there is no customer
\* to list
EstLoadRest(j) ==
  LET job == estJobs[j]
      customers == estimateStripeCustomers(job.users)
      listed == [job EXCEPT !.stripeCustomers = customers]
      inCard == withProgress(state, LAMBDA p :
                  [p EXCEPT !.phase = "stripe",
                            !.stripe_customers_total = Len(customers),
                            !.stripe_customers_done = 0,
                            !.stripe_customers_failed = 0,
                            !.stripe_customers_multi_currency = 0,
                            !.stripe_customers_non_cny = 0])
  IN  /\ job.pc = "loadRest"
      /\ \/ IF estEnv.stripeClient /\ Len(customers) > 0
              THEN /\ state' = inCard
                   /\ estJobs' = [estJobs EXCEPT ![j] = poolStart(listed, POOL_CONCURRENCY)]
                   /\ UNCHANGED estHist
              ELSE EstJobReturns(j, listed)
         \/ EstJobThrows(j, job, "supabase_error")
      /\ UNCHANGED << algoVars, pubVars, dbVars, now, batch, legacy, quota0, estEnv >>

\* mutant of listingFailed: the failure is not counted
listingFailed_NotCounted(job, customerId) ==
  [job EXCEPT !.failedCustomers = @ \cup {customerId}]

\* catch { stripeCustomersFailed += 1 }; failedCustomers is history
listingFailed(job, customerId) ==
  [job EXCEPT !.stripeCustomersFailed = @ + 1,
              !.failedCustomers = @ \cup {customerId}]

\* the try block after listCustomerCharges returned chargeList
listingReturned(job, customerId, chargeList) ==
  LET c == estimateCustomerCharges(chargeList)
  IN  IF c.kind = "multi"
        THEN [job EXCEPT !.stripeCustomersMultiCurrency = @ + 1]
      ELSE IF c.kind = "non_cny"
        THEN [job EXCEPT !.stripeCustomersNonCny = @ + 1]
      ELSE [job EXCEPT
             !.stripeNetPaidByCustomerCny =
                IF c.net > 0 THEN MapSet(@, customerId, c.net) ELSE @,
             !.stripeChargesByCustomerCny =
                IF Len(c.items) > 0 THEN MapSet(@, customerId, c.items) ELSE @]

\* 4) listCustomerCharges of one customer in flight resolves or throws; the
\* finally block; the worker calls the iterator on its next item, and when no
\* worker has one asyncPool resolves and the run ends
EstListCharges(j, customerId) ==
  LET job == estJobs[j]
  IN  /\ job.pc = "card"
      /\ customerId \in job.listing
      /\ \E after \in { listingReturned(job, customerId, estEnv.charges[customerId]),
                        listingFailed(job, customerId) } :
           LET next == poolAdvance(after, customerId, POOL_CONCURRENCY)
               counted == withProgress(state, LAMBDA p :
                            [p EXCEPT
                               !.stripe_customers_done = @ + 1,
                               !.stripe_customers_failed = next.stripeCustomersFailed,
                               !.stripe_customers_multi_currency =
                                  next.stripeCustomersMultiCurrency,
                               !.stripe_customers_non_cny = next.stripeCustomersNonCny])
           IN  IF next.listing = {}
                 THEN EstJobReturns(j, [next EXCEPT !.poolEnd = counted.progress])
                 ELSE /\ state' = counted
                      /\ estJobs' = [estJobs EXCEPT ![j] = next]
                      /\ UNCHANGED estHist
      /\ UNCHANGED << algoVars, pubVars, dbVars, now, batch, legacy, quota0, estEnv >>

(***************************************************************************)
(* SpecEstimate: the estimate job over small fleets.                       *)
(***************************************************************************)
EstCustomerIds == {"cusA", "cusB", "cusC", "cusD", "cusE", "cusF", "cusG"}

EstUser(id, quotaCents, usedCents, customer, topups) ==
  [ id |-> id, quota |-> quotaCents * QUOTA_PER_CENT,
    used_quota |-> usedCents * QUOTA_PER_CENT, stripe_customer |-> customer,
    top_ups |-> topups ]

EstFleets ==
  { \* two card customers, one of them with an aggregator top-up as well
    [ users |-> << EstUser(1, 3, 1, "cusA", << Topup("t1", "alipay", 2, 4, 1),
                                                Topup("c1", "stripe", 2, 2, 2) >>),
                   EstUser(2, 2, 0, "cusB", << >>) >>,
      refunds |-> << >>,
      charges |-> [c \in {"cusA", "cusB"} |->
                     IF c = "cusA" THEN << Charge("c1", 2, 2) >>
                     ELSE << Charge("c2", 3, 1) >>],
      stripeClient |-> TRUE ],
    \* three customers (one shared by two users): cny, two currencies, usd only
    [ users |-> << EstUser(1, 2, 0, "cusA", << >>), EstUser(2, 2, 0, "cusB", << >>),
                   EstUser(3, 2, 0, "cusC", << >>), EstUser(4, 0, 0, "cusA", << >>) >>,
      refunds |-> << >>,
      charges |-> [c \in {"cusA", "cusB", "cusC"} |->
                     IF c = "cusA" THEN << Charge("c1", 2, 1) >>
                     ELSE IF c = "cusB"
                       THEN << Charge("c2", 2, 1),
                               [Charge("c3", 2, 2) EXCEPT !.currency = "usd"] >>
                     ELSE << [Charge("c3", 2, 1) EXCEPT !.currency = "usd"] >>],
      stripeClient |-> TRUE ],
    \* no card customer; a top-up that is partly refunded
    [ users |-> << EstUser(1, 2, 0, "", << Topup("t1", "alipay", 2, 2, 1) >>) >>,
      refunds |-> << [ mysql_user_id |-> 1, provider |-> "yipay",
                       topup_trade_no |-> "t1",
                       stripe_charge_id |-> "", refund_money_minor |-> 1,
                       quota_delta |-> QUOTA_PER_CENT, out_refund_no |-> << >>,
                       status |-> "succeeded", error_message |-> "" ] >>,
      charges |-> << >>,
      stripeClient |-> TRUE ],
    \* a card customer, and no card processor client configured
    [ users |-> << EstUser(1, 2, 0, "cusA", << >>) >>,
      refunds |-> << >>,
      charges |-> [c \in {"cusA"} |-> << Charge("c1", 2, 1) >>],
      stripeClient |-> FALSE ],
    \* a customer charged in two currencies whose user also paid through the
    \* aggregator, next to a user with card charges in cny only
    [ users |-> << EstUser(1, 4, 0, "cusB", << Topup("t1", "alipay", 2, 2, 1) >>),
                   EstUser(2, 2, 0, "cusA", << >>) >>,
      refunds |-> << >>,
      charges |-> [c \in {"cusA", "cusB"} |->
                     IF c = "cusA" THEN << Charge("c1", 2, 1) >>
                     ELSE << Charge("c2", 2, 1),
                             [Charge("c3", 2, 2) EXCEPT !.currency = "usd"] >>],
      stripeClient |-> TRUE ] }

InitEstimate ==
  /\ algoOrders = << >>
  /\ algoUsed = 0
  /\ algoResult = << >>
  /\ EngineOff
  /\ state = IdleState
  /\ estJobs = [j \in EstJobIds |-> IdleJob]
  /\ estEnv \in EstFleets
  /\ estHist = NoEstimateHistory
  /\ PublicOff

NextEstimate ==
  \/ EstRecompute
  \/ EstGetAutostart
  \/ \E j \in EstJobIds : EstLoadUsers(j)
  \/ \E j \in EstJobIds : EstLoadRest(j)
  \/ \E j \in EstJobIds, c \in EstCustomerIds : EstListCharges(j, c)

SpecEstimate == InitEstimate /\ [][NextEstimate]_vars

(***************************************************************************)
(* Claims about the fleet estimate (SpecEstimate).                         *)
(***************************************************************************)
\* at most one run is in flight, and one is in flight exactly while the status
\* is running
EstSingleFlight ==
  /\ Cardinality(EstInFlight) <= 1
  /\ (EstInFlight # {}) <=> (state.status = "running")

\* a start request received while the status is running changes neither the
\* state nor the runs
EstStartWhileRunningIsNoOp ==
  (estHist'.starts # estHist.starts /\ state.status = "running")
    => (state' = state /\ estJobs' = estJobs)

\* C18: the estimate is single-flight: at most one computeRefundEstimate run is
\* in flight at any time, and a start request (recompute or autostart) received
\* while status = running starts no run and leaves the state unchanged
C18_EstimateIsSingleFlight ==
  []EstSingleFlight /\ [][EstStartWhileRunningIsNoOp]_vars

\* C18 witness: a start request was ignored while a run is in its card phase
\* with part of the customers listed
C18_Witness ==
  /\ estHist.ignored > 0
  /\ \E j \in EstInFlight :
       /\ estJobs[j].pc = "card"
       /\ estJobs[j].listing # {}
  /\ state.status = "running"
  /\ state.progress[1].stripe_customers_done > 0

\* C19: once a job has completed successfully, last_result is the result of the
\* most recent successful job in every later state
C19_LastResultIsLastSuccess ==
  estHist.lastOk # << >> => state.last_result = estHist.lastOk

\* C19 witness: after a successful job and a later one that ended in error, a
\* third one is running and last_result is still that of the first
C19_Witness ==
  /\ estJobs[1].outcome = "ready"
  /\ estJobs[2].outcome = "error"
  /\ estJobs[3].pc \notin {"idle", "done"}
  /\ state.status = "running"
  /\ state.result = << >>
  /\ state.last_result # << >>
  /\ state.last_result = estHist.lastOk

\* the run entered the card phase
EstListedCustomers(job) == estEnv.stripeClient /\ job.stripeCustomers # << >>

\* C20: a run that has listed customers ends in status ready whatever listings
\* failed, and the stripe_customers_failed of its result is the number of
\* customers whose listing failed
C20_ListingFailuresAreCounted ==
  /\ \A j \in EstJobIds :
       (estJobs[j].pc = "done" /\ EstListedCustomers(estJobs[j]))
         => estJobs[j].outcome = "ready"
  /\ state.status = "ready"
       => /\ estJobs[EstLaunched].outcome = "ready"
          /\ state.result[1].counts.stripe_customers_failed
               = Cardinality(estJobs[EstLaunched].failedCustomers)

\* C20 witness: a run in which the listing of every one of three customers
\* failed has ended, and the status is ready
C20_Witness ==
  /\ state.status = "ready"
  /\ state.result[1].counts.stripe_customers_total = 3
  /\ state.result[1].counts.stripe_customers_failed = 3
  /\ Cardinality(estJobs[EstLaunched].failedCustomers) = 3

(***************************************************************************)
(* Claims on the multi-currency guard (Spec and SpecEstimate).             *)
(***************************************************************************)
\* the paid, succeeded charges of the list are in more than one currency
MultiCurrencyCharges(chargeList) ==
  \E i, j \in 1..Len(chargeList) :
    /\ chargeList[i].paid /\ chargeList[i].status = "succeeded"
    /\ chargeList[j].paid /\ chargeList[j].status = "succeeded"
    /\ chargeList[i].currency # chargeList[j].currency

\* the customers of the fleet whose listing returned charges in two currencies
EstMultiCurrencyListed(job) ==
  { job.stripeCustomers[i] : i \in 1..Len(job.stripeCustomers) }
    \cap { c \in DOMAIN estEnv.charges :
             c \notin job.failedCustomers /\ MultiCurrencyCharges(estEnv.charges[c]) }

\* the users of the run whose customer is one of those
EstMultiCurrencyUsers(job) ==
  { i \in 1..Len(job.users) : job.users[i].stripe_customer \in EstMultiCurrencyListed(job) }

\* what the users of the set add to the three totals of the result
EstContribution(job, userSet) ==
  LET rows == listRefundsForUserAccounting(estEnv.refunds)
      per == [i \in 1..Len(job.users) |->
                IF i \in userSet THEN estimateUser(job.users[i], job, rows)
                ELSE [totalNetPaid |-> 0, due |-> 0, stripePart |-> 0, yipayPart |-> 0]]
  IN  [ total_cents |-> SumMap(per, LAMBDA p : p.due),
        stripe_cents |-> SumMap(per, LAMBDA p : p.stripePart),
        yipay_cents |-> SumMap(per, LAMBDA p : p.yipayPart) ]

\* C21 (as stated, fleet estimate): in the result of a run, the users whose
\* card customer has paid, succeeded charges in more than one currency add
\* nothing to the total, card and aggregator cents (the totals are those of the
\* other users), and the multi_currency counter counts each such customer once
C21_MultiCurrencyUserExcluded ==
  state.status = "ready" =>
    LET job == estJobs[EstLaunched]
        result == state.result[1]
    IN  /\ result.counts.stripe_customers_multi_currency
             = Cardinality(EstMultiCurrencyListed(job))
        /\ result.totals
             = EstContribution(job, (1..Len(job.users)) \ EstMultiCurrencyUsers(job))

\* the part of C21 that holds in the fleet estimate: the counter counts each
\* such customer once, and those users add nothing to the card cents
C21_MultiCurrencyCardSideExcluded ==
  state.status = "ready" =>
    LET job == estJobs[EstLaunched]
        result == state.result[1]
    IN  /\ result.counts.stripe_customers_multi_currency
             = Cardinality(EstMultiCurrencyListed(job))
        /\ EstContribution(job, EstMultiCurrencyUsers(job)).stripe_cents = 0
        /\ result.totals.stripe_cents
             = EstContribution(job, (1..Len(job.users))
                                      \ EstMultiCurrencyUsers(job)).stripe_cents

\* a run has ended whose result counts one customer with two currencies, and
\* the user of that customer adds aggregator cents to the totals
C21_EstimateWitness ==
  /\ state.status = "ready"
  /\ state.result[1].counts.stripe_customers_multi_currency = 1
  /\ EstContribution(estJobs[EstLaunched],
                     EstMultiCurrencyUsers(estJobs[EstLaunched])).yipay_cents > 0

\* the part of C21 on the per-user path: a request whose quote listed charges
\* in more than one currency ends with refund_failed and the message
\* stripe_multiple_currencies, having reserved no quota, written no row and
\* called no provider
C21_PerUserFailsMultipleCurrencies ==
  \A b \in BatchIds :
    LET s == batch[b]
    IN  ( /\ Quoted(s)
          /\ s.userRow.stripe_customer # ""
          /\ MultiCurrencyCharges(charges) )
        => /\ s.pc = "done"
           /\ s.result = "refund_failed"
           /\ s.error = "stripe_multiple_currencies"
           /\ ~s.touched
           /\ s.calls = 0
           /\ s.reservedNet = 0
           /\ s.operations = << >>

\* such a request has been answered, for a user with refundable payments on
\* both channels
C21_PerUserWitness ==
  \E b \in BatchIds :
    /\ batch[b].pc = "done"
    /\ batch[b].error = "stripe_multiple_currencies"
    /\ ~batch[b].req.dry_run
    /\ batch[b].quote.stripeNetPaidCents > 0
    /\ batch[b].quote.yipayNetPaidCents > 0

(***************************************************************************)
(* SpecDerive: the derivation of POST /:userId/refund (gross, fee, net)    *)
(* over the database snapshots of SpecQuote, for dry-run requests with     *)
(* every fee and amount of DeriveRequests.                                 *)
(***************************************************************************)
\* what parseFeePercentToBps returned: an integer of 0..10000
DeriveFeeBps == {0, 1, 500, 5000, 9999, 10000}

\* amount_yuan in cents; 0 = absent
DeriveAmountCents == {0, 1, 3}

DeriveRequests ==
  { [PlainRequest EXCEPT !.dry_run = TRUE, !.fee_bps = f,
                         !.amount = IF a = 0 THEN "absent" ELSE "ok",
                         !.amount_cents = a] :
      f \in DeriveFeeBps, a \in DeriveAmountCents }

NextDerive ==
  \/ \E req \in DeriveRequests : BatchGetUser(1, req)
  \/ BatchListRefunds(1)
  \/ BatchListCharges(1)

SpecDerive == InitQuote /\ [][NextDerive]_vars

\* the request got as far as the fee: quote, fee_percent and amount_yuan are
\* good and there is something to refund
ReachedFee(s) ==
  /\ Quoted(s)
  /\ s.quote.error = ""
  /\ s.req.fee_ok
  /\ s.req.amount # "invalid"
  /\ s.grossCents > 0

C22_WitnessAlmostAll ==
  \E b \in BatchIds :
    /\ ReachedFee(batch[b])
    /\ batch[b].req.fee_bps = 9999
    /\ batch[b].grossCents > 2
    /\ batch[b].feeCents = batch[b].grossCents - 1
    /\ batch[b].netCents = 1
    /\ batch[b].result = "dry_run"

(***************************************************************************)
(* routes/publicRefunds.ts: the public activity view. A JSON value is a    *)
(* pair << tag, payload >>: "null", "bool", "num", "str" (a text), "arr"   *)
(* (a sequence of values) or "obj" (a sequence of << key, value >> in      *)
(* insertion order). A text is the sequence of its words; a word is        *)
(* << prefix, body >>, prefix "ch", "pi" or "cus" for an identifier        *)
(* ch_..., pi_..., cus_... of the card processor and "" otherwise.         *)
(***************************************************************************)
JNull == << "null", << >> >>

JBool(b) == << "bool", << b >> >>

JNum(n) == << "num", << n >> >>

JStr(text) == << "str", text >>

JArr(values) == << "arr", values >>

JObj(entries) == << "obj", entries >>

\* the text of one plain word
Word(w) == << << "", w >> >>

\* mutant of publicSensitiveKeys: the customer id is not in the set
publicSensitiveKeys_NoCustomer ==
  { "topup_trade_no", "trade_no", "stripe_charge_id", "stripe_payment_intent_id",
    "charge_id", "payment_intent", "provider_refund_no", "out_refund_no" }

publicSensitiveKeys ==
  { "topup_trade_no", "trade_no", "stripe_customer", "stripe_charge_id",
    "stripe_payment_intent_id", "charge_id", "payment_intent", "provider_refund_no",
    "out_refund_no" }

\* the keys whose arrays are replaced by their length
publicCountedKeys == { "refundable_charges", "refunds", "refunded_by_topup" }

\* value.length > 50
PublicArrayCap == 50

Redacted == JStr(Word("[redacted]"))

\* the three replace() calls: ch_x, pi_x, cus_x become <prefix>_[redacted]
redactText(text) ==
  [i \in 1..Len(text) |->
     IF text[i][1] \in {"ch", "pi", "cus"} THEN << text[i][1], "[redacted]" >>
     ELSE text[i]]

\* key = "" stands for an absent key (an empty key is falsy as well)
RECURSIVE redactForPublic(_, _)
redactForPublic(value, key) ==
  IF key # "" /\ key \in publicSensitiveKeys THEN Redacted
  ELSE IF value[1] = "str" THEN JStr(redactText(value[2]))
  ELSE IF value[1] = "arr"
    THEN IF Len(value[2]) > PublicArrayCap
           THEN JObj(<< << "count", JNum(Len(value[2])) >>,
                        << "truncated", JBool(TRUE) >> >>)
           ELSE JArr([i \in 1..Len(value[2]) |-> redactForPublic(value[2][i], "")])
  ELSE IF value[1] = "obj"
    THEN JObj([i \in 1..Len(value[2]) |->
                 LET k == value[2][i][1]
                     v == value[2][i][2]
                 IN  IF k \in publicSensitiveKeys THEN << k, Redacted >>
                     ELSE IF k \in publicCountedKeys /\ v[1] = "arr"
                       THEN << k, JObj(<< << "count", JNum(Len(v[2])) >> >>) >>
                     ELSE << k, redactForPublic(v, k) >>])
  ELSE value

\* obj[key] of a JSON value: the value of the last entry with that key, or
\* JNull (undefined) when there is none or the value is not an object
JGet(value, key) ==
  IF value[1] # "obj" THEN JNull
  ELSE LET hits == SelectSeq(value[2], LAMBDA e : e[1] = key)
       IN  IF hits = << >> THEN JNull ELSE hits[Len(hits)][2]

\* a value that is falsy in JavaScript
JFalsy(value) ==
  \/ value[1] = "null"
  \/ value = JBool(FALSE)
  \/ value = JNum(0)
  \/ value = JStr(<< >>)

\* order('created_at', { ascending: false })
RECURSIVE InsertByCreatedAtDesc(_, _)
InsertByCreatedAtDesc(sorted, r) ==
  IF sorted = << >> THEN << r >>
  ELSE IF Head(sorted).created_at >= r.created_at
    THEN << Head(sorted) >> \o InsertByCreatedAtDesc(Tail(sorted), r)
  ELSE << r >> \o sorted

RECURSIVE SortByCreatedAtDesc(_)
SortByCreatedAtDesc(s) ==
  IF s = << >> THEN << >>
  ELSE InsertByCreatedAtDesc(SortByCreatedAtDesc(SubSeq(s, 1, Len(s) - 1)), s[Len(s)])

\* select('id, created_at, mysql_user_id, payment_method, refund_money,
\* provider, status') of GET /activity
publicListItem(r) ==
  JObj(<< << "id", JNum(r.id) >>,
          << "created_at", JNum(r.created_at) >>,
          << "mysql_user_id", JNum(r.mysql_user_id) >>,
          << "payment_method", JStr(Word(r.payment_method)) >>,
          << "refund_money", JStr(Word(r.refund_money)) >>,
          << "provider", JStr(Word(r.provider)) >>,
          << "status", JStr(Word(r.status)) >> >>)

\* the body of GET /activity/:id for the row found
publicDetail(r) ==
  LET rawRequest == r.raw_request
      calcTrace == IF ~JFalsy(rawRequest) /\ rawRequest[1] \in {"obj", "arr"}
                     THEN JGet(rawRequest, "calc_trace") ELSE JNull
  IN  JObj(<< << "item",
                 JObj(<< << "id", JNum(r.id) >>,
                         << "created_at", JNum(r.created_at) >>,
                         << "mysql_user_id", JNum(r.mysql_user_id) >>,
                         << "payment_method", JStr(Word(r.payment_method)) >>,
                         << "refund_money", JStr(Word(r.refund_money)) >>,
                         << "provider", JStr(Word(r.provider)) >>,
                         << "status", JStr(Word(r.status)) >>,
                         << "error_message",
                            IF r.error_message[1] = "str"
                              THEN JStr(redactText(r.error_message[2]))
                              ELSE JNull >> >>) >>,
          << "calc_trace",
             IF ~JFalsy(calcTrace) THEN redactForPublic(calcTrace, "") ELSE JNull >> >>)

\* GET /activity with the status filter ("" = none); the other filters, limit
\* and offset are absent (limit 50, offset 0)
PubGetActivity(status) ==
  LET rows == SortByCreatedAtDesc(
                SelectSeq(refunds, LAMBDA r : status = "" \/ r.status = status))
  IN  /\ pubResponse' =
           << [ route |-> "list", id |-> 0, code |-> 200,
                body |-> JObj(<< << "items",
                                    JArr([i \in 1..Len(rows) |-> publicListItem(rows[i])]) >>,
                                 << "limit", JNum(50) >>,
                                 << "offset", JNum(0) >>,
                                 << "total", JNum(Len(rows)) >> >>) ] >>
      /\ UNCHANGED << algoVars, estVars, dbVars, now, batch, legacy, quota0 >>

\* GET /activity/:id; the uuid of a row is its id, id = 0 is not a uuid
PubGetActivityDetail(id) ==
  LET hits == SelectSeq(refunds, LAMBDA r : r.id = id)
  IN  /\ pubResponse' =
           << IF id = 0
                THEN [ route |-> "detail", id |-> id, code |-> 400,
                       body |-> JObj(<< << "error", JStr(Word("invalid_refund_id")) >> >>) ]
              ELSE IF hits = << >>
                THEN [ route |-> "detail", id |-> id, code |-> 404,
                       body |-> JObj(<< << "error", JStr(Word("refund_not_found")) >> >>) ]
              ELSE [ route |-> "detail", id |-> id, code |-> 200,
                     body |-> publicDetail(hits[1]) ] >>
      /\ UNCHANGED << algoVars, estVars, dbVars, now, batch, legacy, quota0 >>

(***************************************************************************)
(* SpecPublic: the public routes over audit stores of two rows.            *)
(***************************************************************************)
\* values stored under sensitive keys: trade numbers, a charge id, nothing, an
\* object and an array
PubSecrets ==
  { JStr(Word("T1001")), JStr(Word("T1002")), JStr(<< << "ch", "3Nx" >> >>), JNull,
    JObj(<< << "inner", JStr(Word("T1001")) >> >>), JArr(<< JStr(Word("T1002")) >>) }

\* values stored under other keys
PubAmounts == { "1", "2" }

\* the calc_trace written by POST /:userId/refund, cut down to the steps and
\* the operation that carry sensitive keys
engineCalcTrace(secret, amount) ==
  JObj(<< << "version", JNum(2) >>,
          << "batch_id", JStr(Word("userrefund_1_0")) >>,
          << "steps",
             JArr(<< JObj(<< << "i", JNum(1) >>,
                             << "name", JStr(Word("quote.user")) >>,
                             << "detail", JObj(<< << "user_id", JNum(1) >>,
                                                  << "stripe_customer", secret >> >>) >> >>),
                     JObj(<< << "i", JNum(2) >>,
                             << "name", JStr(Word("quote.yipay")) >>,
                             << "detail",
                                JObj(<< << "paid_cents", JStr(Word(amount)) >>,
                                        << "refunded_by_topup",
                                           JArr(<< JObj(<< << "topup_trade_no", secret >>,
                                                           << "refunded_cents",
                                                              JStr(Word(amount)) >> >>) >>)
                                        >> >>) >> >>) >>) >>,
          << "summary", JObj(<< << "net_cents", JStr(Word(amount)) >> >>) >>,
          << "operation", JObj(<< << "provider", JStr(Word("stripe")) >>,
                                  << "stripe_charge_id", secret >>,
                                  << "stripe_payment_intent_id", JNull >>,
                                  << "amount_cents", JStr(Word(amount)) >> >>) >> >>)

\* calc_trace values: the engine's; a sensitive key at the top; sensitive keys
\* in objects of an array of an array; an array above the cap; a string; none
PubTraces ==
  { engineCalcTrace(s, a) : s \in PubSecrets, a \in PubAmounts }
    \cup { JObj(<< << "out_refund_no", s >>, << "note", JStr(Word(a)) >> >>) :
             s \in PubSecrets, a \in PubAmounts }
    \cup { JArr(<< JArr(<< JObj(<< << "trade_no", s >>, << "x", JStr(Word(a)) >> >>),
                           JStr(<< << "", "charge" >>, << "ch", "3Nx" >> >>) >>) >>) :
             s \in PubSecrets, a \in PubAmounts }
    \cup { JArr([i \in 1..(PublicArrayCap + 1) |-> JObj(<< << "charge_id", s >> >>)]) :
             s \in PubSecrets }
    \cup { JStr(<< << "", "refund of" >>, << "cus", "Q7" >> >>), JNull }

\* status and error_message of a row
PubOutcomes ==
  { [ status |-> "pending", error_message |-> JNull ],
    [ status |-> "succeeded", error_message |-> JNull ],
    [ status |-> "failed", error_message |-> JStr(Word("provider_error")) ],
    [ status |-> "failed",
      error_message |-> JStr(<< << "", "No such charge:" >>, << "ch", "3Nx" >> >>) ] }

PubRow(id, createdAt, outcome, tradeNo, trace) ==
  [ id |-> id, created_at |-> createdAt, mysql_user_id |-> 1,
    payment_method |-> "alipay", refund_money |-> "0.02", provider |-> "yipay",
    status |-> outcome.status, error_message |-> outcome.error_message,
    topup_trade_no |-> tradeNo, stripe_charge_id |-> "", out_refund_no |-> tradeNo,
    provider_refund_no |-> tradeNo,
    raw_request |-> JObj(<< << "batchId", JStr(Word("userrefund_1_0")) >>,
                            << "calc_trace", trace >>,
                            << "charge_id", JStr(Word(tradeNo)) >> >>) ]

PubRows ==
  { PubRow(1, 1, o, t, c) : o \in PubOutcomes, t \in {"T1001", "T1002"}, c \in PubTraces }

\* a later row of another batch, failed at the aggregator
PubOtherRow ==
  PubRow(2, 2, [ status |-> "failed",
                 error_message |-> JStr(Word("aggregator_refused")) ],
         "T2001", JNull)

InitPublic ==
  /\ EstimateOff
  /\ PublicOff
  /\ algoOrders = << >>
  /\ algoUsed = 0
  /\ algoResult = << >>
  /\ user = [quota |-> 0, used_quota |-> 0, stripe_customer |-> ""]
  /\ top_ups = << >>
  /\ charges = << >>
  /\ \E r \in PubRows : refunds = << r, PubOtherRow >>
  /\ extRefunds = << >>
  /\ now = 0
  /\ batch = [b \in BatchIds |-> IdleBatch]
  /\ legacy = [r \in LegacyIds |-> IdleLegacy]
  /\ quota0 = 0

NextPublic ==
  \/ \E status \in {"", "pending", "succeeded", "failed"} : PubGetActivity(status)
  \/ \E id \in 0..3 : PubGetActivityDetail(id)

SpecPublic == InitPublic /\ [][NextPublic]_vars

(***************************************************************************)
(* Claims about the public view (SpecPublic).                              *)
(***************************************************************************)
\* the sensitive set of the claims: trade numbers, customer ids, charge and
\* payment-intent ids, provider refund numbers and out_refund_no
SensitiveKeySet ==
  { "topup_trade_no", "trade_no", "stripe_customer", "stripe_charge_id",
    "stripe_payment_intent_id", "charge_id", "payment_intent", "provider_refund_no",
    "out_refund_no" }

\* the two values are the same outside the values stored under sensitive keys
RECURSIVE SameOutsideSensitiveKeys(_, _)
SameOutsideSensitiveKeys(a, b) ==
  IF a[1] # b[1] THEN FALSE
  ELSE IF a[1] = "arr"
    THEN /\ Len(a[2]) = Len(b[2])
         /\ \A i \in 1..Len(a[2]) : SameOutsideSensitiveKeys(a[2][i], b[2][i])
  ELSE IF a[1] = "obj"
    THEN /\ Len(a[2]) = Len(b[2])
         /\ \A i \in 1..Len(a[2]) :
              /\ a[2][i][1] = b[2][i][1]
              /\ \/ a[2][i][1] \in SensitiveKeySet
                 \/ SameOutsideSensitiveKeys(a[2][i][2], b[2][i][2])
  ELSE a = b

\* two rows that differ only in values stored under sensitive keys: in the
\* columns of those names and under those keys of raw_request
RowsDifferOnlyInSensitive(r, t) ==
  /\ r.id = t.id
  /\ r.created_at = t.created_at
  /\ r.mysql_user_id = t.mysql_user_id
  /\ r.payment_method = t.payment_method
  /\ r.refund_money = t.refund_money
  /\ r.provider = t.provider
  /\ r.status = t.status
  /\ r.error_message = t.error_message
  /\ SameOutsideSensitiveKeys(r.raw_request, t.raw_request)

\* every value stored under a sensitive key of the value is the literal
RECURSIVE SensitiveKeysRedacted(_)
SensitiveKeysRedacted(value) ==
  IF value[1] = "arr"
    THEN \A i \in 1..Len(value[2]) : SensitiveKeysRedacted(value[2][i])
  ELSE IF value[1] = "obj"
    THEN \A i \in 1..Len(value[2]) :
           IF value[2][i][1] \in SensitiveKeySet
             THEN value[2][i][2] = JStr(Word("[redacted]"))
             ELSE SensitiveKeysRedacted(value[2][i][2])
  ELSE TRUE

\* the rows of which the row of the response could be told apart
PubTwins(r) == { t \in PubRows : RowsDifferOnlyInSensitive(r, t) }

\* C23: the detail response of a row is the detail response of every row that
\* differs from it only in values stored under sensitive keys (at any depth of
\* calc_trace, arrays included), and every value under a sensitive key of the
\* response is the literal [redacted]
C23_RedactionNonInterference ==
  (pubResponse # << >> /\ pubResponse[1].route = "detail" /\ pubResponse[1].code = 200)
    => /\ SensitiveKeysRedacted(pubResponse[1].body)
       /\ pubResponse[1].id = 1
            => \A t \in PubTwins(refunds[1]) : publicDetail(t) = pubResponse[1].body

\* C23 witness: the detail of a row was sent whose calc_trace holds a trade
\* number under sensitive keys inside an array, and rows with other values
\* there (of other JSON types too) exist
C23_Witness ==
  /\ pubResponse # << >>
  /\ pubResponse[1].route = "detail"
  /\ pubResponse[1].code = 200
  /\ pubResponse[1].id = 1
  /\ JGet(refunds[1].raw_request, "calc_trace")[1] = "obj"
  /\ JGet(JGet(JGet(refunds[1].raw_request, "calc_trace"), "operation"),
          "stripe_charge_id") = JStr(Word("T1001"))
  /\ JGet(JGet(JGet(pubResponse[1].body, "calc_trace"), "operation"),
          "stripe_charge_id") = JStr(Word("[redacted]"))
  /\ Cardinality(PubTwins(refunds[1])) >= 12

\* the texts (string values) anywhere in a JSON value
RECURSIVE TextsIn(_)
TextsIn(value) ==
  IF value[1] = "str" THEN { value[2] }
  ELSE IF value[1] = "arr"
    THEN UNION { TextsIn(value[2][i]) : i \in 1..Len(value[2]) }
  ELSE IF value[1] = "obj"
    THEN UNION { TextsIn(value[2][i][2]) : i \in 1..Len(value[2]) }
  ELSE {}

\* the keys anywhere in a JSON value
RECURSIVE KeysIn(_)
KeysIn(value) ==
  IF value[1] = "arr"
    THEN UNION { KeysIn(value[2][i]) : i \in 1..Len(value[2]) }
  ELSE IF value[1] = "obj"
    THEN UNION { {value[2][i][1]} \cup KeysIn(value[2][i][2]) : i \in 1..Len(value[2]) }
  ELSE {}

\* the error messages stored in the rows of the audit store
StoredErrorMessages ==
  { refunds[i].error_message[2] :
      i \in { k \in 1..Len(refunds) : refunds[k].error_message[1] = "str" } }

\* C24 (as stated): no response of the public list or of the public detail
\* contains the text of the error_message of a row of the audit store
C24_NoErrorMessageInPublicResponses ==
  pubResponse # << >> =>
    TextsIn(pubResponse[1].body) \cap StoredErrorMessages = {}

\* the part of C24 that holds: the list has no error_message field and none of
\* the stored error messages, and in every response the identifiers of the card
\* processor (ch_, pi_, cus_) are replaced
C24_ListHidesErrorMessages ==
  pubResponse # << >> =>
    /\ pubResponse[1].route = "list" =>
         /\ "error_message" \notin KeysIn(pubResponse[1].body)
         /\ TextsIn(pubResponse[1].body) \cap StoredErrorMessages = {}
    /\ \A text \in TextsIn(pubResponse[1].body) :
         \A i \in 1..Len(text) :
           text[i][1] \in {"ch", "pi", "cus"} => text[i][2] = "[redacted]"

\* the list was sent with the row of a failed refund in it
C24_ListWitness ==
  /\ pubResponse # << >>
  /\ pubResponse[1].route = "list"
  /\ Len(JGet(pubResponse[1].body, "items")[2]) = 2
  /\ \A i \in 1..2 : refunds[i].status = "failed"
  /\ Cardinality(StoredErrorMessages) = 2

(***************************************************************************)
(* The lifecycle of the rows of the refunds table.                         *)
(***************************************************************************)
RefundStatuses == {"pending", "succeeded", "failed"}

\* one step of the refunds table: no row is removed, a new row is pending, and
\* a status changes only from pending, to succeeded or to failed
RowLifecycleStep ==
  /\ Len(refunds') >= Len(refunds)
  /\ \A i \in 1..Len(refunds') :
       IF i > Len(refunds)
         THEN refunds'[i].status = "pending"
         ELSE \/ refunds'[i].status = refunds[i].status
              \/ /\ refunds[i].status = "pending"
                 /\ refunds'[i].status \in {"succeeded", "failed"}

\* C25: every row of the refunds table is inserted as pending, changes its
\* status at most once (to succeeded or to failed) and never changes it again,
\* in the batch path and in the legacy path, whichever provider call or write of
\* the table fails.
C25_RowLifecycle ==
  /\ [](\A i \in 1..Len(refunds) : refunds[i].status \in RefundStatuses)
  /\ [][RowLifecycleStep]_vars

\* a batch row is succeeded, the row of the legacy request is failed, and
\* another batch row stays pending after its update to failed was lost
C25_Witness ==
  /\ legacy[1].refundRowId # 0
  /\ refunds[legacy[1].refundRowId].status = "failed"
  /\ \E b \in BatchIds :
       /\ batch[b].pc = "done"
       /\ \E k \in 1..Len(batch[b].operations) :
            refunds[batch[b].operations[k].id].status = "succeeded"
  /\ \E b \in BatchIds :
       /\ batch[b].pc = "done"
       /\ batch[b].leg.logId # 0
       /\ ~batch[b].leg.providerSucceeded
       /\ refunds[batch[b].leg.logId].status = "pending"

(***************************************************************************)
(* The pending row is written before the provider is called.               *)
(***************************************************************************)
\* row k is a pending row of the provider with this out_refund_no
PendingRowFor(k, provider, outRefundNo) ==
  /\ k \in 1..Len(refunds)
  /\ refunds[k].status = "pending"
  /\ refunds[k].provider = provider
  /\ refunds[k].out_refund_no = outRefundNo

\* a step that calls a provider: the caller holds a pending row with the
\* out_refund_no of the call, inserted by an earlier step, and a refund the
\* provider issues in the step carries the key of such a row
CallAfterPendingRow ==
  /\ \A b \in BatchIds :
       batch'[b].calls > batch[b].calls =>
         PendingRowFor(batch[b].leg.logId, batch[b].leg.provider, batch[b].leg.outRefundNo)
  /\ \A r \in LegacyIds :
       (legacy[r].pc = "call" /\ legacy'[r].pc # "call") =>
         PendingRowFor(legacy[r].refundRowId, refunds[legacy[r].refundRowId].provider,
                       legacy[r].outRefundNo)
  /\ \A i \in (Len(extRefunds) + 1)..Len(extRefunds') :
       \E k \in 1..Len(refunds) :
         PendingRowFor(k, extRefunds'[i].provider, extRefunds'[i].key)

\* the request ended on a failed insert of the pending row
InsertFailed(s) ==
  s.pc = "done" /\ s.result = "refund_failed" /\ s.error = "refund_log_insert_failed"

ReserveRefused(s) ==
  s.pc = "done" /\ s.result = "refund_failed" /\ s.error = "insufficient_user_quota"

\* a step in which a reserve is refused writes nothing
RefusedReserveWritesNothing ==
  \A b \in BatchIds :
    (batch[b].pc = "reserve" /\ ReserveRefused(batch'[b])) =>
      /\ user.quota < batch[b].leg.deltaQuota
      /\ UNCHANGED << user, refunds, extRefunds, charges, top_ups >>

\* C27: whatever the interleaving of the concurrent batches and the legacy
\* refund of one user, users.quota is never negative; a leg whose conditional
\* reserve matches no row ends its batch with insufficient_user_quota, with no
\* row inserted and no provider call made for that leg.
C27_QuotaNeverNegative ==
  /\ [](/\ user.quota >= 0
        /\ \A b \in BatchIds :
             ReserveRefused(batch[b]) =>
               /\ batch[b].leg.logId = 0
               /\ ~batch[b].leg.providerSucceeded
               /\ batch[b].calls = Len(batch[b].operations)
               /\ batch[b].reservedNet = OpsQuotaDelta(batch[b]))
  /\ [][RefusedReserveWritesNothing]_vars

\* of two batches racing for the quota of one user, one settled a leg and
\* the reserve of the other was refused
C27_Witness ==
  \E b, c \in BatchIds :
    /\ b # c
    /\ ReserveRefused(batch[b])
    /\ batch[b].leg.deltaQuota > 0
    /\ Len(batch[c].operations) > 0

(***************************************************************************)
(* A leg whose provider call succeeded.                                    *)
(***************************************************************************)
\* the step after the provider call of the current leg of b succeeded: the
\* leg is pushed to operations with its amount and delta, the remainders are
\* lowered by them, the row is succeeded or (with a warning) still pending,
\* and users.quota is not touched
SucceededLegCounted(b) ==
  LET s == batch[b]
      t == batch'[b]
      op == t.operations[Len(t.operations)]
  IN  /\ Len(t.operations) = Len(s.operations) + 1
      /\ op.id = s.leg.logId
      /\ op.amountCents = s.leg.amountCents
      /\ op.deltaQuota = s.leg.deltaQuota
      /\ t.remainingCents = s.remainingCents - s.leg.amountCents
      /\ t.remainingQuotaDelta = s.remainingQuotaDelta - s.leg.deltaQuota
      /\ t.reservedNet = s.reservedNet
      /\ user' = user
      /\ IF op.warning = ""
           THEN refunds'[op.id].status = "succeeded"
           ELSE /\ op.warning = "refund_log_update_failed"
                /\ refunds'[op.id].status = "pending"
      /\ t.pc \notin {"release", "markFailed"}

AfterProviderSuccess ==
  \A b \in BatchIds :
    (batch[b].pc = "markSucceeded" /\ batch'[b] # batch[b]) => SucceededLegCounted(b)

\* C28: once the provider call of a leg has succeeded the leg counts: a failed
\* update of its row to succeeded is only a warning on the operation, its
\* reserve is never released, its row is never marked failed, and
\* remaining_cents and remaining_quota_delta are lowered by the leg.
C28_SucceededLegCounts ==
  /\ [](\A b \in BatchIds :
          LET s == batch[b]
          IN  /\ s.pc = "markSucceeded" => s.leg.providerSucceeded
              /\ s.pc \in {"release", "markFailed"} => ~s.leg.providerSucceeded
              /\ s.reservedNet >= OpsQuotaDelta(s)
              /\ Executing(s) =>
                   /\ s.remainingCents = s.netCents - OpsAmount(s)
                   /\ s.remainingQuotaDelta = s.targetQuotaDelta - OpsQuotaDelta(s)
              /\ \A k \in 1..Len(s.operations) :
                   refunds[s.operations[k].id].status =
                     IF s.operations[k].warning = "" THEN "succeeded" ELSE "pending")
  /\ [][AfterProviderSuccess]_vars

\* a batch counted a leg with a warning (its row is still pending), kept its
\* reserve, and ended on a failure that came after the provider's success
C28_Witness ==
  \E b \in BatchIds :
    LET s == batch[b]
    IN  /\ s.pc = "done"
        /\ s.result = "refund_failed"
        /\ s.leg.providerSucceeded
        /\ Len(s.operations) > 0
        /\ s.operations[Len(s.operations)].id = s.leg.logId
        /\ s.operations[Len(s.operations)].warning # ""
        /\ s.leg.deltaQuota > 0
        /\ s.reservedNet = OpsQuotaDelta(s)
        /\ refunds[s.leg.logId].status = "pending"

(***************************************************************************)
(* SpecLegs: one batch over histories with several card charges and        *)
(* several aggregator top-ups, listed in either order; a charge may have   *)
(* been refunded in part at the card provider before the batch.            *)
(***************************************************************************)
LegHistories ==
  { \* charges and top-ups listed oldest first
    [ user |-> [quota |-> 8 * QUOTA_PER_CENT, used_quota |-> 0, stripe_customer |-> "cus"],
      top_ups |-> << Topup("c1", "stripe", 2, 2, 1), Topup("c2", "stripe", 3, 3, 2),
                     Topup("t1", "alipay", 2, 2, 3), Topup("t2", "wxpay", 1, 1, 4) >>,
      charges |-> << Charge("c1", 2, 1), Charge("c2", 3, 2) >> ],
    \* charges and top-ups listed newest first; the newest charge was refunded
    \* in part before
    [ user |-> [quota |-> 7 * QUOTA_PER_CENT, used_quota |-> 0, stripe_customer |-> "cus"],
      top_ups |-> << Topup("t2", "wxpay", 1, 1, 4), Topup("t1", "alipay", 2, 2, 3),
                     Topup("c2", "stripe", 3, 3, 2), Topup("c1", "stripe", 2, 2, 1) >>,
      charges |-> << [Charge("c2", 3, 2) EXCEPT !.amount_refunded = 1],
                     Charge("c1", 2, 1) >> ],
    \* three charges, the newest listed in the middle
    [ user |-> [quota |-> 7 * QUOTA_PER_CENT, used_quota |-> 0, stripe_customer |-> "cus"],
      top_ups |-> << Topup("c1", "stripe", 2, 2, 1), Topup("c3", "stripe", 2, 2, 3),
                     Topup("c2", "stripe", 2, 2, 2), Topup("t1", "alipay", 1, 1, 4) >>,
      charges |-> << Charge("c1", 2, 1), Charge("c3", 2, 3), Charge("c2", 2, 2) >> ] }

LegAmounts == {1, 3, 4, 6}

LegRequests ==
  { PlainRequest } \cup
  { [PlainRequest EXCEPT !.amount = "ok", !.amount_cents = a] : a \in LegAmounts }

InitLegs ==
  /\ EstimateOff
  /\ PublicOff
  /\ algoOrders = << >>
  /\ algoUsed = 0
  /\ algoResult = << >>
  /\ \E h \in LegHistories :
       /\ user = h.user
       /\ top_ups = h.top_ups
       /\ charges = h.charges
       /\ quota0 = h.user.quota
  /\ refunds = << >>
  /\ extRefunds = << >>
  /\ now = 0
  /\ batch = [b \in BatchIds |-> IdleBatch]
  /\ legacy = [r \in LegacyIds |-> IdleLegacy]

NextLegs ==
  \/ \E req \in LegRequests : BatchGetUser(1, req)
  \/ BatchListRefunds(1)
  \/ BatchListCharges(1)
  \/ BatchReserve(1)
  \/ BatchInsert(1)
  \/ BatchCall(1)
  \/ BatchMarkSucceeded(1)
  \/ BatchMarkTopup(1)
  \/ BatchRelease(1)
  \/ BatchMarkFailed(1)
  \/ BatchYListTopups(1)
  \/ BatchYListRefunds(1)

SpecLegs == InitLegs /\ [][NextLegs]_vars

MinOf(a, b) == IF a < b THEN a ELSE b

\* what was left of a charge when the batch began: what is left now plus what
\* the card provider has refunded since
ChargeRemainingAtStart(chargeId) ==
  ChargeRemaining(chargeId)
    + SumMap(extRefunds, LAMBDA e :
        IF e.provider = "stripe" /\ e.target = chargeId THEN e.amount ELSE 0)

ChargeById(chargeId) == charges[CHOOSE i \in 1..Len(charges) : charges[i].id = chargeId]

RefundableChargeIds ==
  { charges[i].id : i \in { k \in 1..Len(charges) :
                             ChargeRemainingAtStart(charges[k].id) > 0 } }

AggregatorTradeNos ==
  { top_ups[i].trade_no : i \in { k \in 1..Len(top_ups) :
                                   /\ top_ups[k].payment_method \in {"alipay", "wxpay"}
                                   /\ top_ups[k].money_cents > 0 } }

\* remaining_cents when the leg of row i is issued (the rows of SpecLegs are
\* the legs of its one batch, in the order of their issue)
RemainingBeforeLeg(i) ==
  batch[1].netCents - SumMap(SubSeq(refunds, 1, i - 1), LAMBDA r : r.refund_money_minor)

CardLegInOrder(i) ==
  LET r == refunds[i]
      c == r.stripe_charge_id
  IN  /\ \A k \in 1..(i - 1) : refunds[k].provider = "stripe"
      /\ \A d \in RefundableChargeIds :
           ChargeById(d).created > ChargeById(c).created =>
             \E k \in 1..(i - 1) : refunds[k].stripe_charge_id = d
      /\ r.refund_money_minor = MinOf(RemainingBeforeLeg(i), ChargeRemainingAtStart(c))

AggregatorLegInOrder(i) ==
  LET r == refunds[i]
      t == r.topup_trade_no
  IN  /\ RemainingBeforeLeg(i) > 0
      /\ \A d \in RefundableChargeIds :
           /\ ChargeRemaining(d) = 0
           /\ \E k \in 1..(i - 1) :
                /\ refunds[k].stripe_charge_id = d
                /\ refunds[k].refund_money_minor = ChargeRemainingAtStart(d)
      /\ \A d \in AggregatorTradeNos :
           TopupByTradeNo(d).complete_time > TopupByTradeNo(t).complete_time =>
             \E k \in 1..(i - 1) : refunds[k].topup_trade_no = d
      /\ r.refund_money_minor = MinOf(RemainingBeforeLeg(i), TopupByTradeNo(t).money_cents)

\* C29: the legs of a batch are issued card first: the card charges newest
\* first, each leg min(remaining_cents, what is left of the charge); an
\* aggregator leg is issued only when remaining_cents is still positive after
\* every refundable charge was refunded to the whole of what was left of it;
\* the aggregator legs follow by complete_time, newest first.
C29_CardFirstNewestFirst ==
  \A i \in 1..Len(refunds) :
    IF refunds[i].provider = "stripe" THEN CardLegInOrder(i) ELSE AggregatorLegInOrder(i)

\* a batch over charges and top-ups listed oldest first refunded the newer
\* charge, then the older one, then the newer top-up, then the older one
C29_Witness ==
  /\ batch[1].pc = "done"
  /\ batch[1].result = "ok"
  /\ charges[1].created < charges[2].created
  /\ Len(refunds) = 4
  /\ refunds[1].stripe_charge_id = "c2"
  /\ refunds[2].stripe_charge_id = "c1"
  /\ refunds[3].topup_trade_no = "t2"
  /\ refunds[4].topup_trade_no = "t1"

(***************************************************************************)
(* batch_id and the out_refund_no of the legs of distinct batches.         *)
(***************************************************************************)
\* the rows a batch has inserted and still knows: its settled legs and its
\* current leg
BatchRowIds(s) ==
  { s.operations[k].id : k \in 1..Len(s.operations) } \cup ({ s.leg.logId } \ { 0 })

\* C30 (as stated): two distinct batches never use one out_refund_no, so the
\* rows of the refunds table carry pairwise distinct out_refund_no.
C30_DistinctBatchesDistinctKeys ==
  \A b, c \in BatchIds :
    b # c =>
      \A i \in BatchRowIds(batch[b]), j \in BatchRowIds(batch[c]) :
        refunds[i].out_refund_no # refunds[j].out_refund_no

\* C30 (what holds): two batches use one out_refund_no only when they took
\* the same value of Date.now() as their batch_id; then the legs also have
\* the same provider, target and amount.
C30_SharedKeyOnlyWithinOneMillisecond ==
  \A b, c \in BatchIds :
    b # c =>
      \A i \in BatchRowIds(batch[b]), j \in BatchRowIds(batch[c]) :
        refunds[i].out_refund_no = refunds[j].out_refund_no =>
          /\ batch[b].batchId = batch[c].batchId
          /\ refunds[i].provider = refunds[j].provider
          /\ refunds[i].refund_money_minor = refunds[j].refund_money_minor

\* two batches that began in different milliseconds settled a leg on the
\* same target with the same amount, under different out_refund_no
C30_Witness ==
  \E b, c \in BatchIds :
    /\ b # c
    /\ batch[b].batchId # batch[c].batchId
    /\ \E i \in BatchRowIds(batch[b]), j \in BatchRowIds(batch[c]) :
         /\ refunds[i].provider = refunds[j].provider
         /\ refunds[i].topup_trade_no = refunds[j].topup_trade_no
         /\ refunds[i].stripe_charge_id = refunds[j].stripe_charge_id
         /\ refunds[i].refund_money_minor = refunds[j].refund_money_minor
         /\ refunds[i].out_refund_no # refunds[j].out_refund_no

(***************************************************************************)
(* SpecPool: one estimate run over fleets with more card customers than    *)
(* asyncPool has workers.                                                  *)
(***************************************************************************)
PoolCustomerIds == << "cusA", "cusB", "cusC", "cusD", "cusE", "cusF", "cusG" >>

\* n users with one card customer each, and one more user who shares the
\* customer of the first
PoolFleet(n) ==
  [ users |-> [i \in 1..(n + 1) |->
                 EstUser(i, 1, 0, PoolCustomerIds[IF i > n THEN 1 ELSE i], << >>)],
    refunds |-> << >>,
    charges |-> [c \in EstCustomerIds |-> << Charge("c1", 1, 1) >>],
    stripeClient |-> TRUE ]

PoolFleets == { PoolFleet(n) : n \in {4, 5, 6, 7} }

InitPool ==
  /\ algoOrders = << >>
  /\ algoUsed = 0
  /\ algoResult = << >>
  /\ EngineOff
  /\ state = IdleState
  /\ estJobs = [j \in EstJobIds |-> IdleJob]
  /\ estEnv \in PoolFleets
  /\ estHist = NoEstimateHistory
  /\ PublicOff

\* POST /recompute, once
PoolRecompute == EstLaunched = 0 /\ EstRecompute

NextPool ==
  \/ PoolRecompute
  \/ EstLoadUsers(1)
  \/ EstLoadRest(1)
  \/ \E c \in EstCustomerIds : EstListCharges(1, c)

SpecPool == InitPool /\ [][NextPool]_vars

\* the listCustomerCharges calls of the run that have returned or thrown
PoolSettled(job) ==
  { job.listCalls[i] : i \in 1..Len(job.listCalls) } \ job.listing

\* C31: in the card phase the pool calls listCustomerCharges once for every
\* distinct card customer, never has more than 5 calls in flight, and when it
\* resolves progress.stripe_customers_done = progress.stripe_customers_total,
\* whatever the order in which the calls return and whichever of them fail.
C31_PoolListsEachCustomerOnce ==
  \A j \in EstJobIds :
    LET job == estJobs[j]
        customers == estimateStripeCustomers(estEnv.users)
    IN  /\ job.pc = "card" =>
             /\ Cardinality(job.listing) <= 5
             /\ Cardinality(job.listing) > 0
             /\ \A a, b \in 1..Len(job.listCalls) :
                  job.listCalls[a] = job.listCalls[b] => a = b
             /\ state.progress[1].stripe_customers_done = Cardinality(PoolSettled(job))
             /\ state.progress[1].stripe_customers_total = Len(customers)
        /\ (job.pc = "done" /\ job.poolEnd # << >>) =>
             /\ Len(job.listCalls) = Len(customers)
             /\ { job.listCalls[i] : i \in 1..Len(job.listCalls) }
                  = { customers[i] : i \in 1..Len(customers) }
             /\ \A a, b \in 1..Len(customers) : customers[a] = customers[b] => a = b
             /\ job.listing = {}
             /\ job.poolEnd[1].stripe_customers_done = Len(customers)
             /\ job.poolEnd[1].stripe_customers_total = Len(customers)
        /\ (job.pc = "done" /\ job.outcome = "ready") => job.poolEnd # << >>

\* five listings are in flight while two customers wait, after which the pool
\* resolves with some listings failed and some returned
C31_Witness ==
  /\ estJobs[1].pc = "done"
  /\ Len(estJobs[1].stripeCustomers) = 7
  /\ Len(estJobs[1].users) = 8
  /\ estJobs[1].stripeCustomersFailed = 3
  /\ estJobs[1].poolEnd[1].stripe_customers_done = 7
  /\ estJobs[1].listCalls[6] = "cusG"

\* five listings are in flight and two customers wait for a worker
C31_WitnessFull ==
  /\ estJobs[1].pc = "card"
  /\ Cardinality(estJobs[1].listing) = 5
  /\ Len(estJobs[1].listCalls) = 5
  /\ Len(estJobs[1].stripeCustomers) = 7

(***************************************************************************)
(* SpecEstimateLive: the estimate job when every call it awaits returns or *)
(* throws in the end.                                                      *)
(***************************************************************************)
\* a call that is awaited does not stay pending for ever. The step of a call is
\* enabled exactly while the call is pending, so each conjunct is weak fairness
\* of the step, with the second and third written out on the pending call.
EstRestPending == \E j \in EstJobIds : estJobs[j].pc = "loadRest"

EstListingPending == \E j \in EstJobIds : estJobs[j].pc = "card" /\ estJobs[j].listing # {}

EstCallsReturn ==
  /\ WF_vars(\E j \in EstJobIds : EstLoadUsers(j))
  /\ \/ []<>(~EstRestPending)
     \/ []<><<\E j \in EstJobIds : EstLoadRest(j)>>_vars
  /\ \/ []<>(~EstListingPending)
     \/ []<><<\E j \in EstJobIds, c \in EstCustomerIds : EstListCharges(j, c)>>_vars

SpecEstimateLive == InitEstimate /\ [][NextEstimate]_vars /\ EstCallsReturn

\* a start request received while the status is not running starts a run
EstStartAccepted ==
  (estHist'.starts # estHist.starts /\ state.status # "running")
    => /\ state'.status = "running"
       /\ \E j \in EstJobIds : estJobs[j].pc = "idle" /\ estJobs'[j].pc = "loadUsers"

\* C32: every started estimate run ends, in ready or in error, when every call
\* it awaits returns or throws; the status is running only while a run is in
\* flight, so a start request that comes after the run is accepted.
C32_JobEndsAndStartAccepted ==
  /\ \A j \in EstJobIds :
       (estJobs[j].pc \notin {"idle", "done"})
         ~> (estJobs[j].pc = "done" /\ estJobs[j].outcome \in {"ready", "error"})
  /\ (state.status = "running") ~> (state.status \in {"ready", "error"})
  /\ [](state.status = "running" => EstInFlight # {})
  /\ [][EstStartAccepted]_vars

\* a run ended in error, a later start request was accepted, and the run it
\* started went through the card phase and ended in ready
C32_Witness ==
  /\ estJobs[1].outcome = "error"
  /\ estJobs[2].outcome = "ready"
  /\ estJobs[2].poolEnd # << >>
  /\ state.status = "ready"


(***************************************************************************)
(* SpecLegacy: concurrent POST /api/refund requests alone.                 *)
(***************************************************************************)
NextLegacy ==
  \/ \E r \in LegacyIds : \E i \in 1..Len(top_ups) : \E m \in LegacyMoneys :
       LegacySelect(r, top_ups[i].trade_no, m)
  \/ \E r \in LegacyIds : LegacyInsert(r)
  \/ \E r \in LegacyIds : LegacyCall(r)
  \/ \E r \in LegacyIds : LegacyUpdateCharge(r)
  \/ \E r \in LegacyIds : LegacyUpdateRow(r)
  \/ \E r \in LegacyIds : LegacyCommit(r)
  \/ \E r \in LegacyIds : LegacyMarkSucceeded(r)
  \/ \E r \in LegacyIds : LegacyMarkFailed(r)
  \/ Tick

SpecLegacy == Init /\ [][NextLegacy]_vars

\* the request went through its provider call (yipayRefund or stripeRefund
\* returned or threw)
LegacyCalled(r) == legacy[r].refundRowId # 0 /\ legacy[r].pc # "call"

\* the request committed its transaction
LegacyCommitted(r) == legacy[r].pc = "markSucceeded" \/ legacy[r].result = "ok"

\* the transaction of the request was rolled back
LegacyRolledBack(r) ==
  \/ legacy[r].pc = "markFailed"
  \/ legacy[r].pc = "done" /\ legacy[r].result # "ok"

LegacyPairs ==
  { p \in LegacyIds \X LegacyIds :
      p[1] # p[2] /\ legacy[p[1]].tradeNo = legacy[p[2]].tradeNo
        /\ legacy[p[1]].tradeNo # "" }

\* C33 as stated: of two requests for one trade_no, at most one reaches the
\* provider.
C33_NeverBothReachProvider ==
  \A p \in LegacyPairs : ~(LegacyCalled(p[1]) /\ LegacyCalled(p[2]))

\* a select that finds a status other than success ends the request with
\* topup_not_refundable and writes nothing
LegacyRefusedStep ==
  \A r \in LegacyIds :
    (legacy[r].pc = "idle" /\ legacy'[r].pc # "idle") =>
      IF TopupByTradeNo(legacy'[r].tradeNo).status # "success"
        THEN /\ legacy'[r].pc = "done"
             /\ legacy'[r].result = "topup_not_refundable"
             /\ legacy'[r].refundRowId = 0
             /\ UNCHANGED dbVars
        ELSE legacy'[r].result # "topup_not_refundable"

\* C33 (amended): the requests hold the lock of the select one at a time, so
\* their provider calls never overlap, and of two requests for one trade_no
\* the second goes beyond its select only when the first was rolled back; at
\* most one of them commits, and a request that finds a status other than
\* success returns topup_not_refundable without a provider call, a row or a
\* change of quota.
C33_LockSerialisesLegacyRequests ==
  /\ [](Cardinality({r \in LegacyIds : LegacyHolds(r)}) <= 1)
  /\ [](\A p \in LegacyPairs :
          /\ ~(LegacyCommitted(p[1]) /\ LegacyCommitted(p[2]))
          /\ (p[1] < p[2] /\ legacy[p[2]].result # "topup_not_refundable")
               => LegacyRolledBack(p[1]))
  /\ [](\A r \in LegacyIds :
          legacy[r].result = "topup_not_refundable"
            => legacy[r].pc = "done" /\ legacy[r].refundRowId = 0)
  /\ [][LegacyRefusedStep]_vars

\* the first request committed the refund of a top-up and the second request
\* for the same trade_no was refused; nothing but the first refund was written
C33_Witness ==
  /\ legacy[1].result = "ok"
  /\ legacy[2].result = "topup_not_refundable"
  /\ legacy[2].tradeNo = legacy[1].tradeNo
  /\ Len(refunds) = 1
  /\ Len(extRefunds) = 1

\* the provider call of the first request threw and its transaction was rolled
\* back, after which the second request for the same trade_no was refunded
C33_WitnessRetry ==
  /\ legacy[1].error = "provider_error"
  /\ legacy[2].result = "ok"
  /\ legacy[2].tradeNo = legacy[1].tradeNo


(***************************************************************************)
(* The quota a legacy refund takes back.                                   *)
(***************************************************************************)
\* the quota a top-up granted: centsToQuota of its amount, or of the money paid
\* when the amount is not positive
topupGrantQuota(topup) ==
  IF topup.amount_cents > 0 THEN centsToQuota(topup.amount_cents)
  ELSE centsToQuota(topup.money_cents)

\* the step that commits the transaction of request r
LegacyCommits(r) == legacy[r].pc = "commit" /\ legacy'[r].pc = "markSucceeded"

TopupStatusAfter(tradeNo) ==
  top_ups'[CHOOSE i \in 1..Len(top_ups') : top_ups'[i].trade_no = tradeNo].status

LegacyCommitTakesGrant ==
  \A r \in LegacyIds :
    LegacyCommits(r) =>
      /\ user'.quota = user.quota - topupGrantQuota(legacy[r].topup)
      /\ TopupStatusAfter(legacy[r].tradeNo) = "refund"

\* C34: the commit of a successful legacy refund takes the whole quota the
\* top-up granted from users.quota and sets the status of the top-up to refund,
\* in one step.
C34_CommitTakesFullGrant == [][LegacyCommitTakesGrant]_vars

\* what the commit does: the status becomes refund and users.quota loses the
\* quota_delta of the request (the quota worth of the money refunded), in one
\* step, and no other step of the legacy path writes either
LegacyWritesTogether ==
  /\ \A r \in LegacyIds :
       LegacyCommits(r) =>
         /\ user'.quota = user.quota - legacy[r].quotaDelta
         /\ TopupByTradeNo(legacy[r].tradeNo).status = "success"
         /\ TopupStatusAfter(legacy[r].tradeNo) = "refund"
  /\ (\A r \in LegacyIds : ~LegacyCommits(r)) => UNCHANGED << user, top_ups >>

C34_StatusAndQuotaTogether == [][LegacyWritesTogether]_vars

\* a refund of 0.01 of an aggregator top-up that granted 0.04 was committed:
\* the top-up is in status refund and the user lost the quota of 0.01
C34_Witness ==
  /\ legacy[1].result = "ok"
  /\ legacy[1].topup.amount_cents = 4
  /\ legacy[1].refundMoney = 1
  /\ TopupByTradeNo(legacy[1].tradeNo).status = "refund"
  /\ user.quota = quota0 - centsToQuota(1)
  /\ legacy[2].pc = "idle"


(***************************************************************************)
(* utils/quota.ts yuanStringToCents. A string is the sequence of its       *)
(* characters; a call returns << value >>, or << >> when it throws.        *)
(***************************************************************************)
YuanChars == {"0", "1", "-", ".", "x", " "}

MaxYuanLen == 5

DecimalDigits == {"0", "1"}

DigitValue(c) == IF c = "1" THEN 1 ELSE 0

RECURSIVE StrTrimStart(_)
StrTrimStart(s) ==
  IF s # << >> /\ Head(s) = " " THEN StrTrimStart(Tail(s)) ELSE s

RECURSIVE StrTrimEnd(_)
StrTrimEnd(s) ==
  IF s # << >> /\ s[Len(s)] = " " THEN StrTrimEnd(SubSeq(s, 1, Len(s) - 1)) ELSE s

\* String.prototype.trim
StrTrim(s) == StrTrimEnd(StrTrimStart(s))

\* String.prototype.split('.'): the parts between the points
RECURSIVE StrSplitDot(_)
StrSplitDot(s) ==
  IF \A i \in 1..Len(s) : s[i] # "." THEN << s >>
  ELSE LET k == CHOOSE i \in 1..Len(s) : s[i] = "." /\ \A j \in 1..(i - 1) : s[j] # "."
       IN  << SubSeq(s, 1, k - 1) >> \o StrSplitDot(SubSeq(s, k + 1, Len(s)))

\* frac.padEnd(2, '0').slice(0, 2)
padEndSlice2(frac) ==
  IF Len(frac) >= 2 THEN SubSeq(frac, 1, 2)
  ELSE IF Len(frac) = 1 THEN Append(frac, "0")
  ELSE << "0", "0" >>

\* the value of digits in the radix, most significant first
RECURSIVE DigitsValue(_, _)
DigitsValue(digits, radix) ==
  IF digits = << >> THEN 0
  ELSE DigitsValue(SubSeq(digits, 1, Len(digits) - 1), radix) * radix
         + DigitValue(digits[Len(digits)])

AllDigits(s) == s # << >> /\ \A i \in 1..Len(s) : s[i] \in DecimalDigits

\* BigInt(string): white space is trimmed and the empty string is 0n; then a
\* decimal literal with an optional sign, or an unsigned literal with the
\* prefix 0x (0b and 0o have no character in YuanChars); else a SyntaxError
BigIntOfString(str) ==
  LET t == StrTrim(str)
  IN  IF t = << >> THEN << 0 >>
      ELSE IF AllDigits(t) THEN << DigitsValue(t, 10) >>
      ELSE IF Head(t) = "-" /\ AllDigits(Tail(t)) THEN << -DigitsValue(Tail(t), 10) >>
      ELSE IF Len(t) > 2 /\ t[1] = "0" /\ t[2] = "x" /\ AllDigits(SubSeq(t, 3, Len(t)))
        THEN << DigitsValue(SubSeq(t, 3, Len(t)), 16) >>
      ELSE << >>

yuanStringToCents(yuan) ==
  LET trimmed == StrTrim(yuan)
      negative == trimmed # << >> /\ Head(trimmed) = "-"
      normalized == IF negative THEN Tail(trimmed) ELSE trimmed
      parts == StrSplitDot(normalized)
      whole == parts[1]
      frac == IF Len(parts) > 1 THEN parts[2] ELSE << >>
      cent == padEndSlice2(frac)
      wholeN == BigIntOfString(IF whole = << >> THEN << "0" >> ELSE whole)
      centN == BigIntOfString(cent)
  IN  IF trimmed = << >> THEN << >>
      ELSE IF wholeN = << >> \/ centN = << >> THEN << >>
      ELSE LET cents == wholeN[1] * 100 + centN[1]
           IN  << IF negative THEN -cents ELSE cents >>

\* users.ts: the amount_yuan of the body as the request record holds it; an
\* empty amount_yuan is falsy and counts as absent
YuanRequest(yuan) ==
  LET parsed == yuanStringToCents(yuan)
      body == [PlainRequest EXCEPT
                 !.dry_run = TRUE,
                 !.amount = IF yuan = << >> THEN "absent"
                            ELSE IF parsed = << >> THEN "invalid" ELSE "ok",
                 !.amount_cents = IF yuan = << >> \/ parsed = << >> THEN 0
                                  ELSE parsed[1]]
  IN  [field \in DOMAIN body \cup {"amount_yuan"} |->
         IF field = "amount_yuan" THEN yuan ELSE body[field]]

RECURSIVE StringsUpTo(_)
StringsUpTo(n) ==
  IF n = 0 THEN { << >> }
  ELSE LET shorter == StringsUpTo(n - 1)
       IN  shorter \cup { Append(s, c) : s \in shorter, c \in YuanChars }

YuanInputs == StringsUpTo(MaxYuanLen)

(***************************************************************************)
(* SpecYuan: requests whose amount_yuan ranges over YuanInputs.            *)
(***************************************************************************)
NextYuan ==
  \/ \E yuan \in YuanInputs : BatchGetUser(1, YuanRequest(yuan))
  \/ BatchListRefunds(1)
  \/ BatchListCharges(1)

\* the histories of the engine with a single top-up
InitYuan == Init /\ Len(top_ups) = 1

SpecYuan == InitYuan /\ [][NextYuan]_vars

\* an optional minus, decimal digits, and optionally a point and digits
YuanWellFormed(yuan) ==
  LET body == IF yuan # << >> /\ Head(yuan) = "-" THEN Tail(yuan) ELSE yuan
      dots == { i \in 1..Len(body) : body[i] = "." }
  IN  /\ \A i \in 1..Len(body) : body[i] \in DecimalDigits \cup {"."}
      /\ Cardinality(dots) <= 1
      /\ body # << >>
      /\ body[1] # "."

\* the cents of a well-formed amount: the digits of the fraction beyond the
\* second are dropped
YuanValue(yuan) ==
  LET negative == Head(yuan) = "-"
      body == IF negative THEN Tail(yuan) ELSE yuan
      parts == StrSplitDot(body)
      frac == IF Len(parts) > 1 THEN parts[2] ELSE << >>
      cents == DigitsValue(parts[1], 10) * 100 + DigitsValue(padEndSlice2(frac), 10)
  IN  IF negative THEN -cents ELSE cents

\* C35: yuanStringToCents returns the cents of an amount made of an optional
\* minus, an integer part and an optional fraction, and throws on every other
\* string.
C35_OnlyWellFormedAmountsParse ==
  \A b \in BatchIds :
    batch[b].pc # "idle" =>
      LET yuan == batch[b].req.amount_yuan
      IN  yuanStringToCents(yuan) =
            IF YuanWellFormed(yuan) THEN << YuanValue(yuan) >> ELSE << >>

\* what holds: every well-formed amount parses to its cents
C35_WellFormedAmountsParse ==
  \A b \in BatchIds :
    batch[b].pc # "idle" =>
      LET yuan == batch[b].req.amount_yuan
      IN  YuanWellFormed(yuan) => yuanStringToCents(yuan) = << YuanValue(yuan) >>

\* the amount 1.1.1, with two points, was taken for 1.10 and the request went
\* on to its dry-run answer
C35_Witness ==
  /\ batch[1].pc = "done"
  /\ batch[1].req.amount_yuan = << "1", ".", "1", ".", "1" >>
  /\ batch[1].req.amount = "ok"
  /\ batch[1].req.amount_cents = 110
  /\ batch[1].result # "invalid_amount"


(***************************************************************************)
(* The order of orders_sorted (SpecAlgo).                                  *)
(***************************************************************************)
\* the promotional ratio r = (g - p_quota) / g as a fraction with a positive
\* denominator, 0 / 1 when g = 0
RatioNum(o) == IF o.grant_quota = 0 THEN 0 ELSE o.grant_quota - o.paid_quota

RatioDen(o) == IF o.grant_quota = 0 THEN 1 ELSE o.grant_quota

RatioHigher(a, b) == RatioNum(a) * RatioDen(b) > RatioNum(b) * RatioDen(a)

RatioSame(a, b) == RatioNum(a) * RatioDen(b) = RatioNum(b) * RatioDen(a)

\* a goes before b: higher ratio, then larger grant, then earlier created_at,
\* then smaller id
GoesBefore(a, b) ==
  \/ RatioHigher(a, b)
  \/ /\ RatioSame(a, b)
     /\ \/ a.grant_quota > b.grant_quota
        \/ /\ a.grant_quota = b.grant_quota
           /\ \/ a.created_at < b.created_at
              \/ /\ a.created_at = b.created_at
                 /\ IdRank(a.id) < IdRank(b.id)

\* C36: orders_sorted is in the order of ratio descending, grant descending,
\* created_at ascending and id ascending, the ratios compared as exact
\* fractions; an order absorbs used quota only when every order before it, so
\* every order of higher ratio, is filled to its grant.
C36_SortedByRatioGrantCreatedId ==
  algoResult # << >> =>
    LET s == algoResult[1].orders_sorted
    IN  /\ Len(s) = Len(algoOrders)
        /\ \A i, j \in 1..Len(s) :
             i < j =>
               /\ GoesBefore(s[i], s[j])
               /\ s[j].used_alloc_quota > 0 => s[i].used_alloc_quota = s[i].grant_quota
        /\ \A i, j \in 1..Len(s) :
             (RatioHigher(s[i], s[j]) /\ s[j].used_alloc_quota > 0)
               => s[i].used_alloc_quota = s[i].grant_quota

\* three orders of three different ratios, the one with the larger numerator
\* g - p_quota not being the one with the higher ratio; the second is partly
\* consumed and the third untouched
C36_Witness ==
  /\ algoResult # << >>
  /\ LET s == algoResult[1].orders_sorted
     IN  /\ Len(s) = 3
         /\ RatioHigher(s[1], s[2])
         /\ RatioHigher(s[2], s[3])
         /\ RatioNum(s[1]) < RatioNum(s[2])
         /\ s[1].used_alloc_quota = s[1].grant_quota
         /\ s[2].used_alloc_quota > 0
         /\ s[2].used_alloc_quota < s[2].grant_quota
         /\ s[3].used_alloc_quota = 0
         /\ s[3].grant_quota > 0


(***************************************************************************)
(* The consumption walk of a quote (SpecQuote).                            *)
(***************************************************************************)
\* the walk over the orders: all of used is allocated, within the grants, the
\* refundable part within what was paid, and nothing after the first order
\* that is not filled
WalkAllocates(orders, used) ==
  /\ SumMap(orders, LAMBDA o : o.used_alloc_quota) = used
  /\ \A i \in 1..Len(orders) :
       /\ 0 <= orders[i].used_alloc_quota
       /\ orders[i].used_alloc_quota <= orders[i].grant_quota
       /\ 0 <= orders[i].refundable_quota
       /\ orders[i].refundable_quota <= orders[i].paid_quota
       /\ orders[i].used_alloc_quota < orders[i].grant_quota
            => \A j \in (i + 1)..Len(orders) : orders[j].used_alloc_quota = 0

\* C37: in every quote the walk over the orders with the gift-pool order
\* allocates used_quota exactly: the u_i sum to used_quota, 0 <= u_i <= g_i,
\* 0 <= f_i <= p_quota_i, and the orders after the first one that is not
\* filled get u = 0.
C37_WalkAllocatesUsedQuota ==
  \A b \in BatchIds :
    Quoted(batch[b]) => WalkAllocates(batch[b].quote.orders_sorted, batch[b].quote.usedQuota)

\* a quote with a gift-pool order where the used quota fills the gift pool and
\* part of a real order, another real order being left untouched
C37_Witness ==
  /\ Quoted(batch[1])
  /\ LET q == batch[1].quote
     IN  /\ q.gift_pool_quota > 0
         /\ q.usedQuota > q.gift_pool_quota
         /\ \E i, j \in 1..Len(q.orders_sorted) :
              /\ i < j
              /\ q.orders_sorted[i].id # "gift_pool"
              /\ q.orders_sorted[i].used_alloc_quota > 0
              /\ q.orders_sorted[i].used_alloc_quota < q.orders_sorted[i].grant_quota
              /\ q.orders_sorted[j].grant_quota > 0
              /\ q.orders_sorted[j].used_alloc_quota = 0


(***************************************************************************)
(* Failed rows and external refunds.                                       *)
(***************************************************************************)
\* a provider has issued a refund under the out_refund_no of row k
RefundIssuedFor(k) ==
  \E i \in 1..Len(extRefunds) :
    /\ extRefunds[i].key = refunds[k].out_refund_no
    /\ extRefunds[i].provider = refunds[k].provider

\* C38: a row of the audit store is failed only when no provider has issued a
\* refund under its out_refund_no, on the batch path and on the legacy path.
C38_FailedOnlyWithoutExternalRefund ==
  \A k \in 1..Len(refunds) : refunds[k].status = "failed" => ~RefundIssuedFor(k)

\* what holds on the batch path: the row of a leg becomes failed only in the
\* catch block of a leg whose provider call did not succeed
BatchFailsOnlyUnacceptedLeg ==
  \A b \in BatchIds :
    (/\ batch[b].leg.logId # 0
     /\ batch[b].leg.logId <= Len(refunds)
     /\ batch'[b] # batch[b]
     /\ refunds[batch[b].leg.logId].status # "failed"
     /\ refunds'[batch[b].leg.logId].status = "failed")
      => ~batch[b].leg.providerSucceeded

C38_BatchFailsOnlyUnacceptedLeg == [][BatchFailsOnlyUnacceptedLeg]_vars

\* the card refund of a legacy request was issued, the quota update then
\* matched no row, and the row of the request is failed
C38_Witness ==
  /\ legacy[1].pc = "done"
  /\ legacy[1].error = "insufficient_user_quota"
  /\ legacy[1].refundRowId # 0
  /\ refunds[legacy[1].refundRowId].status = "failed"
  /\ RefundIssuedFor(legacy[1].refundRowId)
  /\ legacy[2].pc = "idle"


(***************************************************************************)
(* SpecAlone: one POST /:userId/refund request on a user with a ledger of  *)
(* earlier refunds, and no other request.                                  *)
(***************************************************************************)
NextAlone ==
  \/ \E req \in LegRequests : BatchGetUser(1, req)
  \/ BatchListRefunds(1)
  \/ BatchListCharges(1)
  \/ BatchReserve(1)
  \/ BatchInsert(1)
  \/ BatchCall(1)
  \/ BatchMarkSucceeded(1)
  \/ BatchMarkTopup(1)
  \/ BatchRelease(1)
  \/ BatchMarkFailed(1)
  \/ BatchYListTopups(1)
  \/ BatchYListRefunds(1)

SpecAlone == InitQuote /\ [][NextAlone]_vars

\* what the aggregator loop can still refund: for each top-up it lists, the
\* money paid less what the ledger and the legs of the batch hold for it
YipayCapacity(s) ==
  SumMap(s.topups, LAMBDA t :
    IF t.money_cents > s.refundedByTopup[t.trade_no]
      THEN t.money_cents - s.refundedByTopup[t.trade_no] ELSE 0)

\* C39: a batch that runs alone never ends with refund_incomplete, whichever
\* of its calls and writes fail (a failure ends it with refund_failed); what
\* the card charges and the listed top-ups can refund is at least net_cents.
C39_LoneBatchNeverIncomplete ==
  /\ batch[1].result # "refund_incomplete"
  /\ Executing(batch[1]) =>
       batch[1].netCents <= batch[1].quote.stripeNetPaidCents
                              + batch[1].quote.yipayNetPaidCents
  /\ (batch[1].phase = "yipay" /\ batch[1].pc \notin {"yListTopups", "yListRefunds"}) =>
       batch[1].remainingCents <= YipayCapacity(batch[1])

\* a batch alone refunded what was left of a charge refunded in part before and
\* then two aggregator top-ups, and ended ok
C39_Witness ==
  /\ batch[1].result = "ok"
  /\ Len(batch[1].operations) = 3
  /\ batch[1].operations[1].provider = "stripe"
  /\ batch[1].operations[3].provider = "yipay"
  /\ Len(refunds) = 4
  /\ refunds[1].provider = "stripe"

(***************************************************************************)
(* The estimates against the refund quote (SpecEstimate).                  *)
(***************************************************************************)
\* the user ids a request for the per-user estimate names, after
\* normalizeUserIds: no id twice
MaxEstimateUserIds == 2

EstUserIdLists ==
  { ids \in UNION { [1..n -> 1..4] : n \in 1..MaxEstimateUserIds } :
      \A i, k \in 1..Len(ids) : i # k => ids[i] # ids[k] }

\* the listings of asyncPool(5, stripeCustomers, ...) of the per-user estimate,
\* all resolved; failed: the customers whose listing threw
RECURSIVE estimateListAll(_, _, _)
estimateListAll(job, customers, failed) ==
  IF customers = << >> THEN job
  ELSE LET c == Head(customers)
           after == IF c \in failed THEN listingFailed(job, c)
                    ELSE listingReturned(job, c, estEnv.charges[c])
       IN  estimateListAll(after, Tail(customers), failed)

\* the items of the per-user estimate: the users found, in the order of the
\* request, each with the due cents and the plan
computeRefundEstimateForUsers(userIds, failed) ==
  LET asked == { userIds[i] : i \in 1..Len(userIds) }
      users == SelectSeq(estEnv.users, LAMBDA u : u.id \in asked)
      rows == SelectSeq(listRefundsForUserAccounting(estEnv.refunds),
                        LAMBDA r : r.mysql_user_id \in asked)
      customers == estimateStripeCustomers(users)
      start == [IdleJob EXCEPT !.users = users, !.stripeCustomers = customers]
      job == IF estEnv.stripeClient /\ Len(customers) > 0
               THEN estimateListAll(start, customers, failed)
               ELSE start
      found == SelectSeq(userIds, LAMBDA id : \E i \in 1..Len(users) : users[i].id = id)
  IN  [ k \in 1..Len(found) |->
          LET u == users[CHOOSE i \in 1..Len(users) : users[i].id = found[k]]
              e == estimateUser(u, job, rows)
          IN  [ user_id |-> found[k], due_cents |-> e.due,
                plan |-> [ stripe_cents |-> e.stripePart,
                           yipay_cents |-> e.yipayPart ] ] ]

\* buildRefundQuote of a user of the fleet, on the same rows and charges
EstQuote(u) ==
  buildRefundQuote(
    u,
    SelectSeq(listRefundsForUserAccounting(estEnv.refunds),
              LAMBDA r : r.mysql_user_id = u.id),
    IF estEnv.stripeClient /\ u.stripe_customer # ""
      THEN estEnv.charges[u.stripe_customer] ELSE << >>,
    u.top_ups)

\* the user of the fleet with that id
EstUserById(id) ==
  estEnv.users[CHOOSE i \in 1..Len(estEnv.users) : estEnv.users[i].id = id]

\* the due cents and the plan of the fleet estimate for user u are those of
\* the quote q
FleetAgrees(u, job, q) ==
  LET e == estimateUser(u, job, listRefundsForUserAccounting(estEnv.refunds))
  IN  /\ e.due = q.dueCents
      /\ e.stripePart = q.plan.stripeCents
      /\ e.yipayPart = q.plan.yipayCents

\* the due cents and the plan of an item of the per-user estimate are those of
\* the quote q
ItemAgrees(item, q) ==
  /\ item.due_cents = q.dueCents
  /\ item.plan.stripe_cents = q.plan.stripeCents
  /\ item.plan.yipay_cents = q.plan.yipayCents

\* the card charges the quote of u counts are in a currency other than cny
EstNonCny(u) ==
  /\ estEnv.stripeClient
  /\ u.stripe_customer # ""
  /\ estimateCustomerCharges(estEnv.charges[u.stripe_customer]).kind = "non_cny"

\* C40 (as stated): on one snapshot with every listing answered, the due cents
\* and the card/aggregator plan of the fleet estimate and of the per-user
\* estimate for a user are those of the user's refund quote, for every user
\* whose quote succeeds
C40_EstimatesEqualQuote ==
  /\ state.status = "ready" =>
       LET job == estJobs[EstLaunched]
       IN  \A i \in 1..Len(job.users) :
             LET u == job.users[i]
                 q == EstQuote(u)
             IN  (q.error = "" /\ u.stripe_customer \notin job.failedCustomers)
                   => FleetAgrees(u, job, q)
  /\ \A ids \in EstUserIdLists :
       LET items == computeRefundEstimateForUsers(ids, {})
       IN  \A k \in 1..Len(items) :
             LET q == EstQuote(EstUserById(items[k].user_id))
             IN  q.error = "" => ItemAgrees(items[k], q)

\* what holds: the same for the users whose card charges are not in a
\* currency other than cny
C40_EstimatesEqualQuoteInCny ==
  /\ state.status = "ready" =>
       LET job == estJobs[EstLaunched]
       IN  \A i \in 1..Len(job.users) :
             LET u == job.users[i]
                 q == EstQuote(u)
             IN  ( /\ q.error = ""
                   /\ u.stripe_customer \notin job.failedCustomers
                   /\ ~EstNonCny(u) )
                   => FleetAgrees(u, job, q)
  /\ \A ids \in EstUserIdLists :
       LET items == computeRefundEstimateForUsers(ids, {})
       IN  \A k \in 1..Len(items) :
             LET u == EstUserById(items[k].user_id)
                 q == EstQuote(u)
             IN  (q.error = "" /\ ~EstNonCny(u)) => ItemAgrees(items[k], q)

\* C40 witness: a run ended ready with every listing answered; the quote of a
\* user whose card charges are in usd succeeds with a card plan, the fleet
\* estimate and the per-user estimate of that user have nothing due, and for
\* a user with cny charges all three agree on an amount due
C40_Witness ==
  /\ state.status = "ready"
  /\ estJobs[EstLaunched].failedCustomers = {}
  /\ \E i, k \in 1..Len(estJobs[EstLaunched].users) :
       LET job == estJobs[EstLaunched]
           u == job.users[i]
           v == job.users[k]
           q == EstQuote(u)
           item == computeRefundEstimateForUsers(<< u.id >>, {})[1]
       IN  /\ EstNonCny(u)
           /\ q.error = ""
           /\ q.dueCents > 0
           /\ q.plan.stripeCents > 0
           /\ estimateUser(u, job, listRefundsForUserAccounting(estEnv.refunds)).due = 0
           /\ item.due_cents = 0
           /\ ~EstNonCny(v)
           /\ EstQuote(v).error = ""
           /\ EstQuote(v).dueCents > 0
           /\ FleetAgrees(v, job, EstQuote(v))
           /\ ItemAgrees(computeRefundEstimateForUsers(<< v.id >>, {})[1], EstQuote(v))

=============================================================================
